---- MODULE Spec2Model ----
(***************************************************************************)
(* A model of the CPUID snapshot store of rust-cpuid (src/src/dump.rs):    *)
(* the CpuIdDump map of leaves, its writer (set_leaf, set_subleaf, with    *)
(* the 1h / 8000_0001h EDX mirroring and the max-leaf recomputation) and   *)
(* its reader (cpuid1, cpuid2), its draining iterator (CpuIdDumpIter), and *)
(* of the decoders of src/src/lib.rs that walk subleaves: the iterators    *)
(* ExtendedTopologyIter, CacheParametersIter and ExtendedStateIter, and    *)
(* CpuId::get_extended_function_info.                                      *)
(*                                                                         *)
(* A u32 is modelled as the pair <<hi, lo>> of its 16-bit half words, so   *)
(* that every value of the model stays within TLC's integers: the unsigned *)
(* order is the lexicographic one and the bitwise operators work bit by    *)
(* bit on each half.  No u32 of the store is ever added or subtracted.     *)
(***************************************************************************)
EXTENDS Integers, Sequences, FiniteSets, TLC

VARIABLES
    leaves,     \* CpuIdDump.leaves: HashMap<u32, LeafOrSubleaves>
    panicked,   \* TRUE once a call has panicked: the program has stopped
    call,       \* the last call made on the store, with its arguments
    pre,        \* CpuIdDump.leaves as it was when the last call was entered
    keys,       \* the leaf indices this run's caller writes to
    iter,       \* the decoder or iterator the caller holds, with its fields
    out,        \* what the calls on iter have returned so far, in call order
    build       \* "debug": integer overflow panics; "release": it wraps

vars == <<leaves, panicked, call, pre, keys, iter, out, build>>

----------------------------------------------------------------------------
(* Bounds of the model                                                     *)

\* subleaf indices written by the caller are 0..MaxSubleaf
MaxSubleaf == 1

----------------------------------------------------------------------------
(* u32 values                                                              *)

\* the u32 whose upper half word is hi and whose lower half word is lo
U32(hi, lo) == <<hi, lo>>

ZERO == U32(0, 0)

\* a < b on u32
Lt(a, b) == a[1] < b[1] \/ (a[1] = b[1] /\ a[2] < b[2])

\* core::cmp::max on u32
max(a, b) == IF Lt(a, b) THEN b ELSE a

\* the bitwise operators on an n-bit word, bit by bit from the lowest
RECURSIVE And16(_, _, _)
And16(a, b, n) ==
    IF n = 0 THEN 0
    ELSE (a % 2) * (b % 2) + 2 * And16(a \div 2, b \div 2, n - 1)

RECURSIVE Or16(_, _, _)
Or16(a, b, n) ==
    IF n = 0 THEN 0
    ELSE (IF a % 2 = 1 \/ b % 2 = 1 THEN 1 ELSE 0) + 2 * Or16(a \div 2, b \div 2, n - 1)

RECURSIVE Not16(_, _)
Not16(a, n) ==
    IF n = 0 THEN 0
    ELSE (1 - (a % 2)) + 2 * Not16(a \div 2, n - 1)

\* a & b, a | b, !a on u32
BitAnd(a, b) == U32(And16(a[1], b[1], 16), And16(a[2], b[2], 16))
BitOr(a, b) == U32(Or16(a[1], b[1], 16), Or16(a[2], b[2], 16))
BitNot(a) == U32(Not16(a[1], 16), Not16(a[2], 16))

\* bit i (0..31) of a u32 is set
Bit(a, i) == IF i < 16 THEN (a[2] \div (2^i)) % 2 = 1
                       ELSE (a[1] \div (2^(i - 16))) % 2 = 1

\* the leaf indices the code names
LEAF_0000_0000 == U32(\H0000, \H0000)
LEAF_0000_0001 == U32(\H0000, \H0001)
LEAF_4000_0000 == U32(\H4000, \H0000)
LEAF_8000_0000 == U32(\H8000, \H0000)
LEAF_8000_0001 == U32(\H8000, \H0001)
LEAF_C000_0000 == U32(\HC000, \H0000)

\* Option<T>
None == <<>>
Some(x) == <<x>>
IsSome(o) == o # <<>>
Unwrap(o) == o[1]

----------------------------------------------------------------------------
(* CpuIdResult and LeafOrSubleaves                                         *)

CpuIdResult(a, b, c, d) == [eax |-> a, ebx |-> b, ecx |-> c, edx |-> d]

\* CpuIdResult::empty(): all four registers zero
CpuIdResult_empty == CpuIdResult(ZERO, ZERO, ZERO, ZERO)

DEFAULT_LEAF == CpuIdResult(ZERO, ZERO, ZERO, ZERO)

Leaf(regs) == [tag |-> "Leaf", regs |-> regs]
Subleaf(map) == [tag |-> "Subleaf", subleaves |-> map]

\* HashMap: a function on the set of its keys
EmptyMap == <<>>
contains_key(m, k) == k \in DOMAIN m
insert(m, k, v) == [x \in DOMAIN m \cup {k} |-> IF x = k THEN v ELSE m[x]]
remove(m, k) == [x \in DOMAIN m \ {k} |-> m[x]]
\* HashMap::entry(k).or_insert(v): the map after the call
or_insert(m, k, v) == IF contains_key(m, k) THEN m ELSE insert(m, k, v)

----------------------------------------------------------------------------
(* impl CpuIdReader for CpuIdDump                                          *)

cpuid1_AbsentEchoesLeaf(self, leaf) ==
    IF ~contains_key(self, leaf) THEN [DEFAULT_LEAF EXCEPT !.eax = leaf]
    ELSE IF self[leaf].tag = "Leaf" THEN self[leaf].regs
    ELSE IF contains_key(self[leaf].subleaves, LEAF_0000_0000)
         THEN self[leaf].subleaves[LEAF_0000_0000]
         ELSE DEFAULT_LEAF

cpuid1(self, leaf) ==
    IF ~contains_key(self, leaf) THEN DEFAULT_LEAF
    ELSE IF self[leaf].tag = "Leaf" THEN self[leaf].regs
    ELSE IF contains_key(self[leaf].subleaves, LEAF_0000_0000)
         THEN self[leaf].subleaves[LEAF_0000_0000]
         ELSE DEFAULT_LEAF

cpuid2_ScalarAnswers(self, leaf, subleaf) ==
    IF ~contains_key(self, leaf) THEN DEFAULT_LEAF
    ELSE IF self[leaf].tag = "Leaf" THEN self[leaf].regs
    ELSE IF contains_key(self[leaf].subleaves, subleaf)
         THEN self[leaf].subleaves[subleaf]
         ELSE DEFAULT_LEAF

cpuid2(self, leaf, subleaf) ==
    IF ~contains_key(self, leaf) THEN DEFAULT_LEAF
    ELSE IF self[leaf].tag = "Leaf" THEN DEFAULT_LEAF
    ELSE IF contains_key(self[leaf].subleaves, subleaf)
         THEN self[leaf].subleaves[subleaf]
         ELSE DEFAULT_LEAF

----------------------------------------------------------------------------
(* CpuIdDump::update_max_leaves                                            *)

\* the greatest element of a non-empty set of u32, as the loop's running
\* core::cmp::max leaves it whatever the order the keys are visited in
MaxKey(S) == CHOOSE m \in S : \A k \in S : max(k, m) = m

max_standard_OffByOne(self) ==
    LET ks == {k \in DOMAIN self : Lt(k, LEAF_4000_0000) \/ k = LEAF_4000_0000}
    IN  IF ks = {} THEN None ELSE Some(MaxKey(ks))

max_standard(self) ==
    LET ks == {k \in DOMAIN self : Lt(k, LEAF_4000_0000)}
    IN  IF ks = {} THEN None ELSE Some(MaxKey(ks))

max_hv_CountsExtended(self) ==
    LET ks == {k \in DOMAIN self : ~Lt(k, LEAF_4000_0000) /\ Lt(k, LEAF_C000_0000)}
    IN  IF ks = {} THEN None ELSE Some(MaxKey(ks))

max_hv(self) ==
    LET ks == {k \in DOMAIN self : ~Lt(k, LEAF_4000_0000) /\ Lt(k, LEAF_8000_0000)}
    IN  IF ks = {} THEN None ELSE Some(MaxKey(ks))

max_extended_OffByOne(self) ==
    LET ks == {k \in DOMAIN self : ~Lt(k, LEAF_4000_0000) /\ ~Lt(k, LEAF_8000_0000)
                                   /\ (Lt(k, LEAF_C000_0000) \/ k = LEAF_C000_0000)}
    IN  IF ks = {} THEN None ELSE Some(MaxKey(ks))

max_extended(self) ==
    LET ks == {k \in DOMAIN self : ~Lt(k, LEAF_4000_0000) /\ ~Lt(k, LEAF_8000_0000)
                                   /\ Lt(k, LEAF_C000_0000)}
    IN  IF ks = {} THEN None ELSE Some(MaxKey(ks))

\* one `if let Some(eax) = max_.. { match self.leaves.entry(key).or_insert(..) }`
\* block, run on the outcome st of the code before it; a panic ends the call
\* with the map as it is at that point
update_eax_NoPanic(st, key, maxopt) ==
    IF st.panic \/ ~IsSome(maxopt) THEN st
    ELSE LET m == or_insert(st.leaves, key, Leaf(CpuIdResult_empty))
         IN  IF m[key].tag = "Leaf"
             THEN [leaves |-> [m EXCEPT ![key].regs.eax = Unwrap(maxopt)], panic |-> FALSE]
             ELSE [leaves |-> m, panic |-> FALSE]

update_eax_ResetsLeaf(st, key, maxopt) ==
    IF st.panic \/ ~IsSome(maxopt) THEN st
    ELSE LET m == or_insert(st.leaves, key, Leaf(CpuIdResult_empty))
         IN  IF m[key].tag = "Leaf"
             THEN [leaves |-> [m EXCEPT ![key].regs =
                                [CpuIdResult_empty EXCEPT !.eax = Unwrap(maxopt)]],
                   panic |-> FALSE]
             ELSE [leaves |-> m, panic |-> TRUE]

update_eax_NeverLowers(st, key, maxopt) ==
    IF st.panic \/ ~IsSome(maxopt) THEN st
    ELSE LET m == or_insert(st.leaves, key, Leaf(CpuIdResult_empty))
         IN  IF m[key].tag = "Leaf"
             THEN [leaves |-> [m EXCEPT ![key].regs.eax = max(@, Unwrap(maxopt))],
                   panic |-> FALSE]
             ELSE [leaves |-> m, panic |-> TRUE]

update_eax(st, key, maxopt) ==
    IF st.panic \/ ~IsSome(maxopt) THEN st
    ELSE LET m == or_insert(st.leaves, key, Leaf(CpuIdResult_empty))
         IN  IF m[key].tag = "Leaf"
             THEN [leaves |-> [m EXCEPT ![key].regs.eax = Unwrap(maxopt)], panic |-> FALSE]
             ELSE [leaves |-> m, panic |-> TRUE]

update_max_leaves(self) ==
    LET s0 == [leaves |-> self, panic |-> FALSE]
        s1 == update_eax(s0, LEAF_0000_0000, max_standard(self))
        s2 == update_eax(s1, LEAF_4000_0000, max_hv(self))
    IN  update_eax(s2, LEAF_8000_0000, max_extended(self))

----------------------------------------------------------------------------
(* impl CpuIdWriter for CpuIdDump                                          *)

MIRROR_MASK == U32(\b0000000110000011, \b1111001111111111)

\* `x.edx &= !MIRROR_MASK; x.edx |= y.edx & MIRROR_MASK;`
mirror_edx_NoClear(edx, from) == BitOr(edx, BitAnd(from, MIRROR_MASK))

mirror_edx_WholeRegister(edx, from) == from

mirror_edx(edx, from) ==
    BitOr(BitAnd(edx, BitNot(MIRROR_MASK)), BitAnd(from, MIRROR_MASK))

\* the `if let Some(bits) = bits.as_mut() { .. }` block of set_leaf: the map,
\* the bits to store and whether it panicked
set_leaf_mirror_OneWay(self, leaf, bits) ==
    IF ~IsSome(bits) THEN [leaves |-> self, bits |-> bits, panic |-> FALSE]
    ELSE IF leaf = LEAF_0000_0001 THEN
        IF ~contains_key(self, LEAF_8000_0001)
        THEN [leaves |-> self, bits |-> bits, panic |-> FALSE]
        ELSE IF self[LEAF_8000_0001].tag = "Leaf"
        THEN [leaves |-> [self EXCEPT ![LEAF_8000_0001].regs.edx =
                                mirror_edx(@, Unwrap(bits).edx)],
              bits |-> bits, panic |-> FALSE]
        ELSE [leaves |-> self, bits |-> bits, panic |-> TRUE]
    ELSE [leaves |-> self, bits |-> bits, panic |-> FALSE]

set_leaf_mirror(self, leaf, bits) ==
    IF ~IsSome(bits) THEN [leaves |-> self, bits |-> bits, panic |-> FALSE]
    ELSE IF leaf = LEAF_0000_0001 THEN
        IF ~contains_key(self, LEAF_8000_0001)
        THEN [leaves |-> self, bits |-> bits, panic |-> FALSE]
        ELSE IF self[LEAF_8000_0001].tag = "Leaf"
        THEN [leaves |-> [self EXCEPT ![LEAF_8000_0001].regs.edx =
                                mirror_edx(@, Unwrap(bits).edx)],
              bits |-> bits, panic |-> FALSE]
        ELSE [leaves |-> self, bits |-> bits, panic |-> TRUE]
    ELSE IF leaf = LEAF_8000_0001 THEN
        IF ~contains_key(self, LEAF_0000_0001)
        THEN [leaves |-> self, bits |-> bits, panic |-> FALSE]
        ELSE IF self[LEAF_0000_0001].tag = "Leaf"
        THEN [leaves |-> self,
              bits |-> Some([Unwrap(bits) EXCEPT !.edx =
                                mirror_edx(@, self[LEAF_0000_0001].regs.edx)]),
              panic |-> FALSE]
        ELSE [leaves |-> self, bits |-> bits, panic |-> TRUE]
    ELSE [leaves |-> self, bits |-> bits, panic |-> FALSE]

set_leaf_store_KeepsBookkeeping(self, leaf, bits) ==
    IF IsSome(bits) THEN insert(self, leaf, Leaf(Unwrap(bits)))
    ELSE IF leaf \in {LEAF_0000_0000, LEAF_4000_0000, LEAF_8000_0000} THEN self
    ELSE remove(self, leaf)

\* `if let Some(bits) = bits { insert } else { remove }`
set_leaf_store(self, leaf, bits) ==
    IF IsSome(bits) THEN insert(self, leaf, Leaf(Unwrap(bits)))
    ELSE remove(self, leaf)

set_leaf(self, leaf, bits) ==
    LET m == set_leaf_mirror(self, leaf, bits)
    IN  IF m.panic THEN [leaves |-> m.leaves, panic |-> TRUE]
        ELSE update_max_leaves(set_leaf_store(m.leaves, leaf, m.bits))

\* the `if let Some(bits) = bits { .. } else { .. }` statement of set_subleaf
set_subleaf_store_Overwrite(self, leaf, subleaf, bits) ==
    IF IsSome(bits) THEN
        LET m == insert(self, leaf, Subleaf(EmptyMap))
        IN  IF contains_key(self, leaf) /\ self[leaf].tag = "Leaf"
            THEN [leaves |-> m, panic |-> TRUE]
            ELSE [leaves |-> [m EXCEPT ![leaf].subleaves =
                                insert(IF contains_key(self, leaf)
                                       THEN self[leaf].subleaves ELSE EmptyMap,
                                       subleaf, Unwrap(bits))],
                  panic |-> FALSE]
    ELSE IF ~contains_key(self, leaf) THEN [leaves |-> self, panic |-> FALSE]
    ELSE IF self[leaf].tag = "Subleaf"
    THEN [leaves |-> [self EXCEPT ![leaf].subleaves = remove(@, subleaf)],
          panic |-> FALSE]
    ELSE [leaves |-> self, panic |-> TRUE]

set_subleaf_store_RemoveIgnoresLeaf(self, leaf, subleaf, bits) ==
    IF IsSome(bits) THEN
        LET m == or_insert(self, leaf, Subleaf(EmptyMap))
        IN  IF m[leaf].tag = "Leaf"
            THEN [leaves |-> m, panic |-> TRUE]
            ELSE [leaves |-> [m EXCEPT ![leaf].subleaves =
                                insert(@, subleaf, Unwrap(bits))],
                  panic |-> FALSE]
    ELSE IF ~contains_key(self, leaf) THEN [leaves |-> self, panic |-> FALSE]
    ELSE IF self[leaf].tag = "Subleaf"
    THEN [leaves |-> [self EXCEPT ![leaf].subleaves = remove(@, subleaf)],
          panic |-> FALSE]
    ELSE [leaves |-> self, panic |-> FALSE]

set_subleaf_store_FreshTable(self, leaf, subleaf, bits) ==
    IF IsSome(bits) THEN
        LET m == or_insert(self, leaf, Subleaf(EmptyMap))
        IN  IF m[leaf].tag = "Leaf"
            THEN [leaves |-> m, panic |-> TRUE]
            ELSE [leaves |-> [m EXCEPT ![leaf].subleaves =
                                insert(EmptyMap, subleaf, Unwrap(bits))],
                  panic |-> FALSE]
    ELSE IF ~contains_key(self, leaf) THEN [leaves |-> self, panic |-> FALSE]
    ELSE IF self[leaf].tag = "Subleaf"
    THEN [leaves |-> [self EXCEPT ![leaf].subleaves = remove(@, subleaf)],
          panic |-> FALSE]
    ELSE [leaves |-> self, panic |-> TRUE]

set_subleaf_store_DropsEmptyTable(self, leaf, subleaf, bits) ==
    IF IsSome(bits) THEN
        LET m == or_insert(self, leaf, Subleaf(EmptyMap))
        IN  IF m[leaf].tag = "Leaf"
            THEN [leaves |-> m, panic |-> TRUE]
            ELSE [leaves |-> [m EXCEPT ![leaf].subleaves =
                                insert(@, subleaf, Unwrap(bits))],
                  panic |-> FALSE]
    ELSE IF ~contains_key(self, leaf) THEN [leaves |-> self, panic |-> FALSE]
    ELSE IF self[leaf].tag = "Subleaf"
    THEN [leaves |-> IF DOMAIN self[leaf].subleaves \subseteq {subleaf}
                     THEN remove(self, leaf)
                     ELSE [self EXCEPT ![leaf].subleaves = remove(@, subleaf)],
          panic |-> FALSE]
    ELSE [leaves |-> self, panic |-> TRUE]

set_subleaf_store(self, leaf, subleaf, bits) ==
    IF IsSome(bits) THEN
        LET m == or_insert(self, leaf, Subleaf(EmptyMap))
        IN  IF m[leaf].tag = "Leaf"
            THEN [leaves |-> m, panic |-> TRUE]
            ELSE [leaves |-> [m EXCEPT ![leaf].subleaves =
                                insert(@, subleaf, Unwrap(bits))],
                  panic |-> FALSE]
    ELSE IF ~contains_key(self, leaf) THEN [leaves |-> self, panic |-> FALSE]
    ELSE IF self[leaf].tag = "Subleaf"
    THEN [leaves |-> [self EXCEPT ![leaf].subleaves = remove(@, subleaf)],
          panic |-> FALSE]
    ELSE [leaves |-> self, panic |-> TRUE]

set_subleaf(self, leaf, subleaf, bits) ==
    LET m == set_subleaf_store(self, leaf, subleaf, bits)
    IN  IF m.panic THEN m ELSE update_max_leaves(m.leaves)

----------------------------------------------------------------------------
(* The caller: what it writes                                              *)

LEAF_3FFF_FFFF == U32(\H3FFF, \HFFFF)
LEAF_7FFF_FFFF == U32(\H7FFF, \HFFFF)
LEAF_BFFF_FFFF == U32(\HBFFF, \HFFFF)

\* the mirrored pair of leaves
MirroredPair == {LEAF_0000_0001, LEAF_8000_0001}

\* each run writes to the leaves of one of these sets: the mirrored pair, two
\* leaves of the standard range, the standard and the hypervisor range with
\* their bookkeeping leaves, the hypervisor range with the extended
\* bookkeeping leaf, the top of the extended range with the first
\* vendor-reserved leaf
KeySets ==
    { MirroredPair,
      {LEAF_0000_0001, LEAF_3FFF_FFFF},
      {LEAF_0000_0000, LEAF_3FFF_FFFF, LEAF_4000_0000},
      {LEAF_4000_0000, LEAF_7FFF_FFFF, LEAF_8000_0000},
      {LEAF_BFFF_FFFF, LEAF_C000_0000} }

\* the register contents the caller writes: QA has mirrored EDX bits 1 and 5,
\* QB has mirrored EDX bit 0 and the unmirrored bits 10, 11 and 31
QA == CpuIdResult(U32(0, 7), U32(0, 1), U32(0, 2), U32(\H0000, \H0022))
QB == CpuIdResult(U32(0, 0), U32(\H8000, 0), U32(0, 4), U32(\H8000, \H0C01))
Quads == {QA, QB}

Subleaves == {U32(0, i) : i \in 0..MaxSubleaf}

OptQuads == {None} \cup {Some(q) : q \in Quads}

----------------------------------------------------------------------------
(* The state machine                                                       *)

\* CpuIdDump::new()
\* no decoder has been asked for
NoIter == [kind |-> "none"]

\* the store does no arithmetic, so its runs are the same under either build
Init ==
    /\ leaves = EmptyMap
    /\ panicked = FALSE
    /\ call = [op |-> "new", leaf |-> LEAF_0000_0000, subleaf |-> None, bits |-> None]
    /\ pre = EmptyMap
    /\ keys \in KeySets
    /\ iter = NoIter
    /\ out = <<>>
    /\ build = "debug"

SetLeaf(leaf, bits) ==
    /\ ~panicked
    /\ LET r == set_leaf(leaves, leaf, bits)
       IN  /\ leaves' = r.leaves
           /\ panicked' = r.panic
    /\ call' = [op |-> "set_leaf", leaf |-> leaf, subleaf |-> None, bits |-> bits]
    /\ pre' = leaves
    /\ UNCHANGED <<keys, iter, out, build>>

SetSubleaf(leaf, subleaf, bits) ==
    /\ ~panicked
    /\ LET r == set_subleaf(leaves, leaf, subleaf, bits)
       IN  /\ leaves' = r.leaves
           /\ panicked' = r.panic
    /\ call' = [op |-> "set_subleaf", leaf |-> leaf, subleaf |-> Some(subleaf), bits |-> bits]
    /\ pre' = leaves
    /\ UNCHANGED <<keys, iter, out, build>>

Next ==
    \/ \E leaf \in keys, bits \in OptQuads : SetLeaf(leaf, bits)
    \/ \E leaf \in keys, subleaf \in Subleaves, bits \in OptQuads :
            SetSubleaf(leaf, subleaf, bits)

Spec == Init /\ [][Next]_vars

\* the runs whose caller writes the mirrored pair only
InitPair == Init /\ keys = MirroredPair

SpecPair == InitPair /\ [][Next]_vars

TypeOK ==
    /\ panicked \in BOOLEAN
    /\ \A k \in DOMAIN leaves : leaves[k].tag \in {"Leaf", "Subleaf"}

----------------------------------------------------------------------------
(* Vocabulary of the properties                                            *)

\* the three leaves whose eax update_max_leaves maintains
Bookkeeping == {LEAF_0000_0000, LEAF_4000_0000, LEAF_8000_0000}

IsScalar(m, k) == contains_key(m, k) /\ m[k].tag = "Leaf"
IsSubleafTable(m, k) == contains_key(m, k) /\ m[k].tag = "Subleaf"

\* the stored keys k with lo <= k < hi
StoredIn(m, lo, hi) == {k \in DOMAIN m : ~Lt(k, lo) /\ Lt(k, hi)}

\* the largest u32 of S, 0 when S is empty
Largest(S) == IF S = {} THEN ZERO
              ELSE CHOOSE m \in S : \A k \in S : k = m \/ Lt(k, m)

\* the mirror mask as the specification gives it: 0x0183F3FF
MaskValue == U32(\H0183, \HF3FF)
MaskBits == (0..9) \cup (12..17) \cup {23, 24}

\* every leaf and subleaf index a query of the model asks for
QueryLeaves ==
    UNION KeySets \cup Bookkeeping
QuerySubleaves == {U32(0, i) : i \in 0..(MaxSubleaf + 1)}

\* the two stores answer every query1 and query2 alike
SameAnswers(m1, m2) ==
    /\ \A l \in QueryLeaves \cup DOMAIN m1 \cup DOMAIN m2 :
            cpuid1(m1, l) = cpuid1(m2, l)
    /\ \A l \in QueryLeaves \cup DOMAIN m1 \cup DOMAIN m2, s \in QuerySubleaves :
            cpuid2(m1, l, s) = cpuid2(m2, l, s)

----------------------------------------------------------------------------
(* C1                                                                      *)

\* C1: after any sequence of set_leaf/set_subleaf calls none of which
\* panicked, cpuid1(0x0).eax is the largest stored key below 0x4000_0000,
\* cpuid1(0x4000_0000).eax the largest stored key in [0x4000_0000,
\* 0x8000_0000) and cpuid1(0x8000_0000).eax the largest stored key in
\* [0x8000_0000, 0xC000_0000), each 0 when no key of its range is stored.
C1_MaxLeafBookkeeping ==
    ~panicked =>
        /\ cpuid1(leaves, LEAF_0000_0000).eax =
                Largest(StoredIn(leaves, ZERO, LEAF_4000_0000))
        /\ cpuid1(leaves, LEAF_4000_0000).eax =
                Largest(StoredIn(leaves, LEAF_4000_0000, LEAF_8000_0000))
        /\ cpuid1(leaves, LEAF_8000_0000).eax =
                Largest(StoredIn(leaves, LEAF_8000_0000, LEAF_C000_0000))

\* a removal of the largest standard leaf has brought leaf 0's eax down from
\* 0x3FFF_FFFF to the next stored key, 0x1
C1_Witness ==
    /\ ~panicked
    /\ call.op = "set_leaf" /\ call.leaf = LEAF_3FFF_FFFF /\ call.bits = None
    /\ cpuid1(pre, LEAF_0000_0000).eax = LEAF_3FFF_FFFF
    /\ cpuid1(leaves, LEAF_0000_0000).eax = LEAF_0000_0001

----------------------------------------------------------------------------
(* C2                                                                      *)

\* C2: in every state reached without a panic, if leaves 0x1 and 0x8000_0001
\* are both stored as Leaf, their edx agree on every bit of the mirror mask
\* 0x0183F3FF, which is bits 0-9, 12-17, 23 and 24.
C2_MirroringInvariant ==
    ~panicked =>
        /\ \A i \in 0..31 : Bit(MaskValue, i) <=> i \in MaskBits
        /\ (IsScalar(leaves, LEAF_0000_0001) /\ IsScalar(leaves, LEAF_8000_0001)) =>
              /\ BitAnd(leaves[LEAF_0000_0001].regs.edx, MaskValue) =
                 BitAnd(leaves[LEAF_8000_0001].regs.edx, MaskValue)
              /\ \A i \in MaskBits :
                    Bit(leaves[LEAF_0000_0001].regs.edx, i) <=>
                    Bit(leaves[LEAF_8000_0001].regs.edx, i)

\* both leaves are stored as Leaf after 0x8000_0001 was written with QB over
\* a leaf 0x1 holding QA: the two edx differ, but only outside the mask
C2_Witness ==
    /\ ~panicked
    /\ call.op = "set_leaf" /\ call.leaf = LEAF_8000_0001 /\ call.bits = Some(QB)
    /\ IsScalar(pre, LEAF_0000_0001) /\ pre[LEAF_0000_0001].regs = QA
    /\ IsScalar(leaves, LEAF_0000_0001) /\ IsScalar(leaves, LEAF_8000_0001)
    /\ leaves[LEAF_8000_0001].regs.edx # leaves[LEAF_0000_0001].regs.edx
    /\ leaves[LEAF_8000_0001].regs.edx # QB.edx

----------------------------------------------------------------------------
(* C3                                                                      *)

\* C3: for a leaf L other than 0x0, 0x4000_0000 and 0x8000_0000, after a
\* set_leaf(L, Some(Q)) that did not panic cpuid1(L) returns Q's eax, ebx,
\* ecx and edx, except that for L = 0x1 and L = 0x8000_0001 only the edx bits
\* outside the mirror mask are promised.
C3_ScalarRoundTrip ==
    (/\ call.op = "set_leaf" /\ IsSome(call.bits) /\ ~panicked
     /\ call.leaf \notin Bookkeeping) =>
        LET Q == Unwrap(call.bits)
            r == cpuid1(leaves, call.leaf)
        IN  /\ r.eax = Q.eax /\ r.ebx = Q.ebx /\ r.ecx = Q.ecx
            /\ IF call.leaf \in {LEAF_0000_0001, LEAF_8000_0001}
               THEN \A i \in (0..31) \ MaskBits : Bit(r.edx, i) <=> Bit(Q.edx, i)
               ELSE r.edx = Q.edx

\* a write of QB to 0x8000_0001 over a leaf 0x1 holding QA: what is read back
\* has QB's unmirrored bits and not QB's mirrored ones
C3_Witness ==
    /\ ~panicked
    /\ call.op = "set_leaf" /\ call.leaf = LEAF_8000_0001 /\ call.bits = Some(QB)
    /\ IsScalar(pre, LEAF_0000_0001) /\ pre[LEAF_0000_0001].regs = QA
    /\ cpuid1(leaves, LEAF_8000_0001).edx # QB.edx
    /\ Bit(cpuid1(leaves, LEAF_8000_0001).edx, 10)
    /\ cpuid1(leaves, LEAF_8000_0001).eax = QB.eax

----------------------------------------------------------------------------
(* C4                                                                      *)

\* C4: a set_leaf(0x1, Some(Q)) that did not panic stores Q unmodified at
\* 0x1; if 0x8000_0001 was a Leaf holding E it now holds E with
\* edx = (E.edx AND NOT mask) OR (Q.edx AND mask), its eax, ebx, ecx and the
\* edx bits outside the mask unchanged (so bit 5 of Q.edx set makes bit 5 of
\* its edx set); if 0x8000_0001 was absent it is still absent.
C4_WriteLeaf1MirrorsIntoExt ==
    (/\ call.op = "set_leaf" /\ call.leaf = LEAF_0000_0001 /\ IsSome(call.bits)
     /\ ~panicked) =>
        LET Q == Unwrap(call.bits)
        IN  /\ IsScalar(leaves, LEAF_0000_0001)
            /\ leaves[LEAF_0000_0001].regs = Q
            /\ IsScalar(pre, LEAF_8000_0001) =>
                  LET E == pre[LEAF_8000_0001].regs
                      N == leaves[LEAF_8000_0001]
                  IN  /\ N.tag = "Leaf"
                      /\ N.regs.eax = E.eax /\ N.regs.ebx = E.ebx /\ N.regs.ecx = E.ecx
                      /\ N.regs.edx = BitOr(BitAnd(E.edx, BitNot(MaskValue)),
                                            BitAnd(Q.edx, MaskValue))
                      /\ \A i \in (0..31) \ MaskBits : Bit(N.regs.edx, i) <=> Bit(E.edx, i)
                      /\ Bit(Q.edx, 5) => Bit(N.regs.edx, 5)
            /\ ~contains_key(pre, LEAF_8000_0001) => ~contains_key(leaves, LEAF_8000_0001)

\* leaf 0x1 was written with bit 5 of edx set while 0x8000_0001 was a Leaf
\* with bit 5 clear, and bit 5 of 0x8000_0001 is now set
C4_Witness ==
    /\ ~panicked
    /\ call.op = "set_leaf" /\ call.leaf = LEAF_0000_0001 /\ IsSome(call.bits)
    /\ Bit(Unwrap(call.bits).edx, 5)
    /\ IsScalar(pre, LEAF_8000_0001) /\ ~Bit(pre[LEAF_8000_0001].regs.edx, 5)
    /\ Bit(pre[LEAF_8000_0001].regs.edx, 0)
    /\ IsScalar(leaves, LEAF_8000_0001) /\ Bit(leaves[LEAF_8000_0001].regs.edx, 5)
    /\ ~Bit(leaves[LEAF_8000_0001].regs.edx, 0)

----------------------------------------------------------------------------
(* C5                                                                      *)

\* the scenario's quads: edx = 0b10 and nothing else, and all zero
Q_0b10 == CpuIdResult(ZERO, ZERO, ZERO, U32(0, \b10))
Q_Zero == CpuIdResult(ZERO, ZERO, ZERO, ZERO)

\* set_leaf(0x1, Some(Q1)) then set_leaf(0x8000_0001, Some(Q2)) on store m
Leaf1ThenExt(m, Q1, Q2) ==
    LET a == set_leaf(m, LEAF_0000_0001, Some(Q1))
        b == set_leaf(a.leaves, LEAF_8000_0001, Some(Q2))
    IN  [leaves |-> b.leaves, panic |-> a.panic \/ b.panic]

\* set_leaf(0x8000_0001, Some(Q2)) then set_leaf(0x1, Some(Q1)) on store m
ExtThenLeaf1(m, Q1, Q2) ==
    LET a == set_leaf(m, LEAF_8000_0001, Some(Q2))
        b == set_leaf(a.leaves, LEAF_0000_0001, Some(Q1))
    IN  [leaves |-> b.leaves, panic |-> a.panic \/ b.panic]

\* C5: on a store where 0x1 and 0x8000_0001 are each absent or a Leaf, for
\* all quads Q1 and Q2, writing 0x1 with Q1 then 0x8000_0001 with Q2 and
\* writing them in the other order end in stores that answer every cpuid1 and
\* cpuid2 alike, with cpuid1(0x1) = Q1 and cpuid1(0x8000_0001).edx =
\* (Q2.edx AND NOT mask) OR (Q1.edx AND mask); from the empty store with
\* Q1.edx = 0b10 and Q2 all zero, cpuid1(0x8000_0001).edx has bit 1 set and
\* cpuid1(0x0).eax = 1.
C5_MirroredPairOrderIndependent ==
    /\ (/\ ~panicked
        /\ ~IsSubleafTable(leaves, LEAF_0000_0001)
        /\ ~IsSubleafTable(leaves, LEAF_8000_0001)) =>
          \A Q1 \in Quads, Q2 \in Quads :
             LET x == Leaf1ThenExt(leaves, Q1, Q2)
                 y == ExtThenLeaf1(leaves, Q1, Q2)
             IN  /\ ~x.panic /\ ~y.panic
                 /\ SameAnswers(x.leaves, y.leaves)
                 /\ cpuid1(x.leaves, LEAF_0000_0001) = Q1
                 /\ cpuid1(x.leaves, LEAF_8000_0001).edx =
                        BitOr(BitAnd(Q2.edx, BitNot(MaskValue)), BitAnd(Q1.edx, MaskValue))
    /\ \A r \in {Leaf1ThenExt(EmptyMap, Q_0b10, Q_Zero),
                 ExtThenLeaf1(EmptyMap, Q_0b10, Q_Zero)} :
          /\ ~r.panic
          /\ Bit(cpuid1(r.leaves, LEAF_8000_0001).edx, 1)
          /\ cpuid1(r.leaves, LEAF_0000_0000).eax = U32(0, 1)

\* the store reached by writing QA to 0x1 and then QB to 0x8000_0001 over a
\* store holding both leaves is the one the other order gives from there
C5_Witness ==
    /\ ~panicked
    /\ call.op = "set_leaf" /\ call.leaf = LEAF_8000_0001 /\ call.bits = Some(QB)
    /\ IsScalar(pre, LEAF_0000_0001) /\ pre[LEAF_0000_0001].regs = QA
    /\ IsScalar(pre, LEAF_8000_0001) /\ pre[LEAF_8000_0001].regs.eax = QA.eax
    /\ leaves = ExtThenLeaf1(pre, QA, QB).leaves
    /\ leaves[LEAF_8000_0001].regs.edx # QB.edx

----------------------------------------------------------------------------
(* C6                                                                      *)

\* C6: set_leaf(L, Some(q)) and set_leaf(L, None) panic whenever L is stored
\* as a Subleaf table, which is never replaced or removed by set_leaf.
C6_ScalarWriteOnSubleafTableFaults ==
    (call.op = "set_leaf" /\ IsSubleafTable(pre, call.leaf)) =>
        /\ panicked
        /\ IsSubleafTable(leaves, call.leaf)
        /\ leaves[call.leaf] = pre[call.leaf]

----------------------------------------------------------------------------
(* C7                                                                      *)

\* C7: set_subleaf(L, s, Some(q)) and set_subleaf(L, s, None) panic whenever
\* L is stored as a Leaf, for every s, and L's entry is left as it was.
C7_SubleafWriteOnScalarFaults ==
    (call.op = "set_subleaf" /\ IsScalar(pre, call.leaf)) =>
        /\ panicked
        /\ IsScalar(leaves, call.leaf)
        /\ leaves[call.leaf] = pre[call.leaf]

\* a removal of subleaf 1 of a leaf stored as a Leaf with QA has panicked
C7_Witness ==
    /\ panicked
    /\ call.op = "set_subleaf" /\ call.bits = None /\ call.subleaf = Some(U32(0, 1))
    /\ call.leaf \notin Bookkeeping
    /\ IsScalar(pre, call.leaf) /\ pre[call.leaf].regs = QA
    /\ leaves[call.leaf] = Leaf(QA)

----------------------------------------------------------------------------
(* C8                                                                      *)

\* C8: set_leaf(L, Some(q)) with L = 0x1 or L = 0x8000_0001 panics whenever
\* either of 0x1 and 0x8000_0001 is stored as a Subleaf table, the written
\* leaf itself or its counterpart.
C8_MirroringShapeFault ==
    (/\ call.op = "set_leaf" /\ IsSome(call.bits)
     /\ call.leaf \in {LEAF_0000_0001, LEAF_8000_0001}
     /\ (IsSubleafTable(pre, LEAF_0000_0001) \/ IsSubleafTable(pre, LEAF_8000_0001))) =>
        panicked

----------------------------------------------------------------------------
(* C9                                                                      *)

\* C9: for B among 0x0, 0x4000_0000 and 0x8000_0000, any subleaf s and quad
\* q, set_subleaf(B, s, Some(q)) panics in every store reached without a
\* panic, whether B is stored or not.
C9_SubleafWriteOnBookkeepingFaults ==
    (/\ call.op = "set_subleaf" /\ IsSome(call.bits)
     /\ call.leaf \in Bookkeeping) =>
        panicked

\* the write hit a bookkeeping leaf that was not stored, while another one
\* was: the panic is update_max_leaves'
C9_Witness ==
    /\ panicked
    /\ call.op = "set_subleaf" /\ IsSome(call.bits)
    /\ call.leaf = LEAF_8000_0000
    /\ ~contains_key(pre, LEAF_8000_0000)
    /\ IsScalar(pre, LEAF_4000_0000)

----------------------------------------------------------------------------
(* C10                                                                     *)

\* C10: whenever a set_leaf or set_subleaf call panics, the store at the
\* panic is exactly the store before the call.
C10_FaultLeavesStoreUnchanged ==
    panicked => leaves = pre

\* C10, amended: whenever a set_leaf or set_subleaf call panics, the store at
\* the panic is exactly the store before the call, unless the call is
\* set_subleaf(B, s, Some(q)) on a bookkeeping leaf B that was not stored:
\* then the store is the one before the call with B added as the Subleaf
\* table {s: q}.
C10_FaultLeavesStoreUnchangedButNewBookkeepingTable ==
    panicked =>
        IF /\ call.op = "set_subleaf" /\ IsSome(call.bits)
           /\ call.leaf \in Bookkeeping /\ ~contains_key(pre, call.leaf)
        THEN leaves = insert(pre, call.leaf,
                        Subleaf(insert(EmptyMap, Unwrap(call.subleaf), Unwrap(call.bits))))
        ELSE leaves = pre

\* a set_leaf of 0x8000_0001 has panicked on a leaf 0x1 stored as a Subleaf
\* table, and the store, which held 0x8000_0001 as a Leaf, is as it was
C10_Witness ==
    /\ panicked
    /\ call.op = "set_leaf" /\ call.leaf = LEAF_8000_0001
    /\ IsSubleafTable(pre, LEAF_0000_0001)
    /\ IsScalar(pre, LEAF_8000_0001)
    /\ leaves = pre

----------------------------------------------------------------------------
(* C11                                                                     *)

\* the all-zero quad
ZeroQuad == [eax |-> ZERO, ebx |-> ZERO, ecx |-> ZERO, edx |-> ZERO]

\* C11: cpuid1(L) returns the stored quad when L is a Leaf, the entry of
\* subleaf 0 when L is a Subleaf table holding subleaf 0, and the all-zero
\* quad otherwise; cpuid2(L, s) returns the stored entry when L is a Subleaf
\* table holding s and the all-zero quad otherwise, in particular for every s,
\* 0 included, when L is a Leaf.
C11_ReadSemantics ==
    \A L \in QueryLeaves \cup DOMAIN leaves :
        /\ cpuid1(leaves, L) =
              IF IsScalar(leaves, L) THEN leaves[L].regs
              ELSE IF IsSubleafTable(leaves, L) /\ ZERO \in DOMAIN leaves[L].subleaves
                   THEN leaves[L].subleaves[ZERO]
                   ELSE ZeroQuad
        /\ \A s \in QuerySubleaves :
              /\ cpuid2(leaves, L, s) =
                    IF IsSubleafTable(leaves, L) /\ s \in DOMAIN leaves[L].subleaves
                    THEN leaves[L].subleaves[s]
                    ELSE ZeroQuad
              /\ IsScalar(leaves, L) => cpuid2(leaves, L, s) = ZeroQuad

\* leaf 0x1 is a Leaf holding QA and answers subleaf queries with zeros, while
\* 0x3FFF_FFFF is a Subleaf table holding subleaf 1 only: cpuid1 of it is all
\* zero and cpuid2 of its subleaf 1 is QB
C11_Witness ==
    /\ ~panicked
    /\ IsScalar(leaves, LEAF_0000_0001) /\ leaves[LEAF_0000_0001].regs = QA
    /\ cpuid1(leaves, LEAF_0000_0001) = QA
    /\ cpuid2(leaves, LEAF_0000_0001, ZERO) = ZeroQuad
    /\ IsSubleafTable(leaves, LEAF_3FFF_FFFF)
    /\ DOMAIN leaves[LEAF_3FFF_FFFF].subleaves = {U32(0, 1)}
    /\ cpuid1(leaves, LEAF_3FFF_FFFF) = ZeroQuad
    /\ cpuid2(leaves, LEAF_3FFF_FFFF, U32(0, 1)) = QB

----------------------------------------------------------------------------
(* C12                                                                     *)

\* C12: for a leaf L other than 0x0, 0x4000_0000 and 0x8000_0000 that is
\* absent or a Subleaf table, set_subleaf(L, s, Some(Q)) does not panic and
\* leaves L a Subleaf table with cpuid2(L, s) = Q exactly, no mirroring applied
\* even for L = 0x1 and L = 0x8000_0001, and with cpuid2(L, t) as before for
\* every other subleaf t.
C12_SubleafWriteRoundTrip ==
    (/\ call.op = "set_subleaf" /\ IsSome(call.bits)
     /\ call.leaf \notin Bookkeeping
     /\ ~IsScalar(pre, call.leaf)) =>
        LET L == call.leaf
            s == Unwrap(call.subleaf)
        IN  /\ ~panicked
            /\ IsSubleafTable(leaves, L)
            /\ cpuid2(leaves, L, s) = Unwrap(call.bits)
            /\ \A t \in QuerySubleaves \ {s} : cpuid2(leaves, L, t) = cpuid2(pre, L, t)
            /\ DOMAIN leaves[L].subleaves =
                  (IF contains_key(pre, L) THEN DOMAIN pre[L].subleaves ELSE {}) \cup {s}

\* subleaf 0 of the Subleaf table 0x8000_0001, which held QA, was overwritten
\* with QB while leaf 0x1 was a Leaf holding QA: what is read back is QB with
\* none of QA's mirrored bits, and subleaf 1 still answers QA
C12_Witness ==
    /\ ~panicked
    /\ call.op = "set_subleaf" /\ call.leaf = LEAF_8000_0001
    /\ call.subleaf = Some(ZERO) /\ call.bits = Some(QB)
    /\ IsScalar(pre, LEAF_0000_0001) /\ pre[LEAF_0000_0001].regs = QA
    /\ cpuid2(pre, LEAF_8000_0001, ZERO) = QA
    /\ cpuid2(pre, LEAF_8000_0001, U32(0, 1)) = QA
    /\ cpuid2(leaves, LEAF_8000_0001, ZERO) = QB
    /\ cpuid2(leaves, LEAF_8000_0001, U32(0, 1)) = QA

----------------------------------------------------------------------------
(* C13                                                                     *)

\* the bookkeeping leaf of the range a key lies in (none from 0xC000_0000 on)
BookkeepingOf(k) ==
    IF Lt(k, LEAF_4000_0000) THEN {LEAF_0000_0000}
    ELSE IF Lt(k, LEAF_8000_0000) THEN {LEAF_4000_0000}
    ELSE IF Lt(k, LEAF_C000_0000) THEN {LEAF_8000_0000}
    ELSE {}

\* C13: set_subleaf(L, s, None) on a Subleaf table L does not panic, deletes
\* entry s only and keeps every other subleaf; L stays stored as a Subleaf
\* table even when that was its last subleaf, so the bookkeeping leaf of its
\* range still reports a maximum that is at least L, and a later
\* set_subleaf(L, t, Some(q)) does not panic; when L is absent the call does
\* not panic, does not create L and changes nothing.
C13_SubleafRemoval ==
    (call.op = "set_subleaf" /\ call.bits = None) =>
        LET L == call.leaf
            s == Unwrap(call.subleaf)
        IN  /\ IsSubleafTable(pre, L) =>
                  /\ ~panicked
                  /\ IsSubleafTable(leaves, L)
                  /\ DOMAIN leaves[L].subleaves = DOMAIN pre[L].subleaves \ {s}
                  /\ \A t \in DOMAIN leaves[L].subleaves :
                        leaves[L].subleaves[t] = pre[L].subleaves[t]
                  /\ \A B \in BookkeepingOf(L) :
                        ~Lt(cpuid1(leaves, B).eax, L)
                  /\ \A t \in Subleaves, q \in Quads :
                        ~set_subleaf(leaves, L, t, Some(q)).panic
            /\ ~contains_key(pre, L) =>
                  /\ ~panicked
                  /\ ~contains_key(leaves, L)
                  /\ leaves = pre

\* the only subleaf of the Subleaf table 0x3FFF_FFFF was removed: the leaf is
\* still stored, as an empty table, and leaf 0x0 still reports 0x3FFF_FFFF
C13_Witness ==
    /\ ~panicked
    /\ call.op = "set_subleaf" /\ call.bits = None /\ call.leaf = LEAF_3FFF_FFFF
    /\ IsSubleafTable(pre, LEAF_3FFF_FFFF)
    /\ DOMAIN pre[LEAF_3FFF_FFFF].subleaves = {Unwrap(call.subleaf)}
    /\ IsSubleafTable(leaves, LEAF_3FFF_FFFF)
    /\ leaves[LEAF_3FFF_FFFF].subleaves = EmptyMap
    /\ cpuid1(leaves, LEAF_0000_0000).eax = LEAF_3FFF_FFFF

----------------------------------------------------------------------------
(* C14                                                                     *)

\* the stored keys of the range whose bookkeeping leaf is B
RangeKeys(m, B) ==
    IF B = LEAF_0000_0000 THEN StoredIn(m, ZERO, LEAF_4000_0000)
    ELSE IF B = LEAF_4000_0000 THEN StoredIn(m, LEAF_4000_0000, LEAF_8000_0000)
    ELSE StoredIn(m, LEAF_8000_0000, LEAF_C000_0000)

\* C14: when a write to another leaf brings a bookkeeping leaf B into being,
\* B is a Leaf with ebx = ecx = edx = 0 and eax = the largest key of its
\* range; a call that is not a set_leaf of B leaves B's ebx, ecx and edx as
\* they were; and after set_leaf(B, Some(Q)), cpuid1(B) has Q's ebx, ecx and
\* edx and, for eax, the largest key of B's range instead of Q's eax.
C14_BookkeepingWritesOnlyEax ==
    (~panicked /\ call.op # "new") =>
        \A B \in Bookkeeping :
            /\ (~contains_key(pre, B) /\ contains_key(leaves, B) /\ call.leaf # B) =>
                  leaves[B] = Leaf([eax |-> Largest(RangeKeys(leaves, B)),
                                    ebx |-> ZERO, ecx |-> ZERO, edx |-> ZERO])
            /\ (IsScalar(pre, B) /\ call.leaf # B) =>
                  /\ IsScalar(leaves, B)
                  /\ leaves[B].regs.ebx = pre[B].regs.ebx
                  /\ leaves[B].regs.ecx = pre[B].regs.ecx
                  /\ leaves[B].regs.edx = pre[B].regs.edx
            /\ (call.op = "set_leaf" /\ call.leaf = B /\ IsSome(call.bits)) =>
                  cpuid1(leaves, B) =
                      [eax |-> Largest(RangeKeys(leaves, B)),
                       ebx |-> Unwrap(call.bits).ebx,
                       ecx |-> Unwrap(call.bits).ecx,
                       edx |-> Unwrap(call.bits).edx]

\* 0x4000_0000 was written with QA while 0x7FFF_FFFF was stored: it reads
\* back with QA's ebx, ecx and edx and with eax = 0x7FFF_FFFF, not QA's 7
C14_Witness ==
    /\ ~panicked
    /\ call.op = "set_leaf" /\ call.leaf = LEAF_4000_0000 /\ call.bits = Some(QA)
    /\ contains_key(leaves, LEAF_7FFF_FFFF)
    /\ cpuid1(pre, LEAF_4000_0000) = [eax |-> LEAF_7FFF_FFFF, ebx |-> ZERO,
                                      ecx |-> ZERO, edx |-> ZERO]
    /\ cpuid1(leaves, LEAF_4000_0000) = [QA EXCEPT !.eax = LEAF_7FFF_FFFF]

\* a later write to another leaf of the range has changed eax of 0x4000_0000
\* and kept the ebx, ecx and edx that QB gave it
C14_WitnessKept ==
    /\ ~panicked
    /\ call.op = "set_leaf" /\ call.leaf = LEAF_7FFF_FFFF /\ call.bits = None
    /\ cpuid1(pre, LEAF_4000_0000) = [QB EXCEPT !.eax = LEAF_7FFF_FFFF]
    /\ cpuid1(leaves, LEAF_4000_0000) = [QB EXCEPT !.eax = LEAF_4000_0000]

----------------------------------------------------------------------------
(* C15                                                                     *)

\* C15: a non-panicking write or removal on a leaf key >= 0xC000_0000 creates
\* no bookkeeping leaf and changes the eax of none of 0x0, 0x4000_0000 and
\* 0x8000_0000; and a stored key 0x3FFF_FFFF is reported by leaf 0x0, stored
\* keys 0x4000_0000 and 0x7FFF_FFFF by leaf 0x4000_0000, stored keys
\* 0x8000_0000 and 0xBFFF_FFFF by leaf 0x8000_0000, and by no bookkeeping
\* leaf of a lower range.
C15_ReservedLeavesNotTracked ==
    ~panicked =>
        /\ (call.op # "new" /\ ~Lt(call.leaf, LEAF_C000_0000)) =>
              \A B \in Bookkeeping :
                 /\ contains_key(leaves, B) <=> contains_key(pre, B)
                 /\ cpuid1(leaves, B).eax = cpuid1(pre, B).eax
        /\ \A c \in { <<LEAF_3FFF_FFFF, LEAF_0000_0000>>,
                      <<LEAF_4000_0000, LEAF_4000_0000>>,
                      <<LEAF_7FFF_FFFF, LEAF_4000_0000>>,
                      <<LEAF_8000_0000, LEAF_8000_0000>>,
                      <<LEAF_BFFF_FFFF, LEAF_8000_0000>> } :
              contains_key(leaves, c[1]) =>
                 /\ IsScalar(leaves, c[2])
                 /\ ~Lt(leaves[c[2]].regs.eax, c[1])
                 /\ \A B \in Bookkeeping :
                       Lt(B, c[2]) => Lt(cpuid1(leaves, B).eax, c[1])

\* 0xC000_0000 was written while 0xBFFF_FFFF was stored: 0x8000_0000 still
\* reports 0xBFFF_FFFF and no other bookkeeping leaf exists
C15_Witness ==
    /\ ~panicked
    /\ call.op = "set_leaf" /\ call.leaf = LEAF_C000_0000 /\ call.bits = Some(QA)
    /\ contains_key(leaves, LEAF_C000_0000)
    /\ contains_key(leaves, LEAF_BFFF_FFFF)
    /\ cpuid1(leaves, LEAF_8000_0000).eax = LEAF_BFFF_FFFF
    /\ DOMAIN leaves = {LEAF_8000_0000, LEAF_BFFF_FFFF, LEAF_C000_0000}

----------------------------------------------------------------------------
(* The decoders of src/src/lib.rs                                          *)

\* the largest subleaf index the prepared sources store for leaves 4h and Bh
MaxLevel == 2

\* a run stops calling next() once it has returned end this many times
MaxEnds == 2

U32_MAX == U32(\HFFFF, \HFFFF)

\* a + 1 on u32, wrapping
Add1(a) == IF a[2] < 65535 THEN U32(a[1], a[2] + 1)
           ELSE U32((a[1] + 1) % 65536, 0)

\* a + n on u32 for 0 <= n < 2^16, wrapping
Add(a, n) == IF a[2] + n < 65536 THEN U32(a[1], a[2] + n)
             ELSE U32((a[1] + 1) % 65536, a[2] + n - 65536)

\* a - b on u32, wrapping
Sub(a, b) ==
    LET borrow == IF a[2] < b[2] THEN 1 ELSE 0
    IN  U32((a[1] - b[1] - borrow + 65536) % 65536, (a[2] - b[2] + 65536) % 65536)

\* the number a u32 below 2^16 stands for
ToNat(a) == a[2]

\* (r & mask) >> from, with mask the bits 0..to: the field r[to:from], which
\* the callers of the model keep narrower than 31 bits
RECURSIVE get_bits(_, _, _)
get_bits(r, from, to) ==
    IF to < from THEN 0
    ELSE (IF Bit(r, from) THEN 1 ELSE 0) + 2 * get_bits(r, from + 1, to)

EAX_VENDOR_INFO == U32(0, 0)
EAX_CACHE_PARAMETERS == U32(0, 4)
EAX_EXTENDED_TOPOLOGY_INFO == U32(0, 11)
EAX_EXTENDED_STATE_INFO == U32(0, 13)
EAX_EXTENDED_FUNCTION_INFO == U32(\H8000, 0)

\* the source a decoder queries: a snapshot store answers with its cpuid1
query1(src, eax) == cpuid1(src, eax)

\* the source a decoder queries: a snapshot store answers with its cpuid2
query2(src, eax, ecx) == cpuid2(src, eax, ecx)

CpuId_new(src) == [max_eax_value |-> query1(src, EAX_VENDOR_INFO).eax]

leaf_is_supported(self, val) == ~Lt(self.max_eax_value, val)

(* ExtendedTopologyIter *)

get_extended_topology_info(self) ==
    IF leaf_is_supported(self, EAX_EXTENDED_TOPOLOGY_INFO)
    THEN Some([kind |-> "ExtendedTopologyIter", level |-> ZERO])
    ELSE None

level_type_UnknownIsCore(et) ==
    LET t == get_bits(et.ecx, 8, 15)
    IN  IF t = 0 THEN "INVALID"
        ELSE IF t = 1 THEN "SMT"
        ELSE "CORE"

\* "unreachable" stands for the panic of unreachable!()
level_type(et) ==
    LET t == get_bits(et.ecx, 8, 15)
    IN  IF t = 0 THEN "INVALID"
        ELSE IF t = 1 THEN "SMT"
        ELSE IF t = 2 THEN "CORE"
        ELSE "unreachable"

ExtendedTopologyIter_next(self, src) ==
    LET res == query2(src, EAX_EXTENDED_TOPOLOGY_INFO, self.level)
        s1 == [self EXCEPT !.level = Add1(self.level)]
        et == res
        typ == level_type(et)
    IN  IF typ = "unreachable" THEN [self |-> s1, ret |-> None, panic |-> TRUE]
        ELSE IF typ = "INVALID" THEN [self |-> s1, ret |-> None, panic |-> FALSE]
        ELSE [self |-> s1, ret |-> Some(et), panic |-> FALSE]

(* CacheParametersIter *)

get_cache_parameters(self) ==
    IF leaf_is_supported(self, EAX_CACHE_PARAMETERS)
    THEN Some([kind |-> "CacheParametersIter", current |-> ZERO])
    ELSE None

cache_type(cp) ==
    LET typ == get_bits(cp.eax, 0, 4)
    IN  IF typ = 0 THEN "NULL"
        ELSE IF typ = 1 THEN "DATA"
        ELSE IF typ = 2 THEN "INSTRUCTION"
        ELSE IF typ = 3 THEN "UNIFIED"
        ELSE "RESERVED"

CacheParametersIter_next_YieldsReserved(self, src) ==
    LET cp == query2(src, EAX_CACHE_PARAMETERS, self.current)
    IN  IF cache_type(cp) = "NULL" THEN [self |-> self, ret |-> None, panic |-> FALSE]
        ELSE [self |-> [self EXCEPT !.current = Add1(self.current)],
              ret |-> Some(cp), panic |-> FALSE]

CacheParametersIter_next(self, src) ==
    LET res == query2(src, EAX_CACHE_PARAMETERS, self.current)
        cp == res
    IN  IF cache_type(cp) \in {"NULL", "RESERVED"}
        THEN [self |-> self, ret |-> None, panic |-> FALSE]
        ELSE [self |-> [self EXCEPT !.current = Add1(self.current)],
              ret |-> Some(cp), panic |-> FALSE]

(* ExtendedStateInfo and ExtendedStateIter *)

get_extended_state_info(self, src) ==
    IF leaf_is_supported(self, EAX_EXTENDED_STATE_INFO)
    THEN LET res == query2(src, EAX_EXTENDED_STATE_INFO, U32(0, 0))
             res1 == query2(src, EAX_EXTENDED_STATE_INFO, U32(0, 1))
         IN  Some([kind |-> "ExtendedStateInfo", eax |-> res.eax, ebx |-> res.ebx,
                   ecx |-> res.ecx, edx |-> res.edx, eax1 |-> res1.eax])
    ELSE None

\* the u64 (edx << 32) | eax, kept as its two u32 halves
xcr0_supported(self) == [hi |-> self.edx, lo |-> self.eax]

\* v & (1 << n) > 0 on u64, 0 <= n <= 63
Bit64(v, n) == IF n < 32 THEN Bit(v.lo, n) ELSE Bit(v.hi, n - 32)

ExtendedStateInfo_iter(self) ==
    [kind |-> "ExtendedStateIter", level |-> U32(0, 1),
     xcr0_supported |-> xcr0_supported(self)]

RECURSIVE ExtendedStateIter_next(_, _)
ExtendedStateIter_next(self, src) ==
    IF Lt(U32(0, 62), self.level)
    THEN [self |-> self, ret |-> None, panic |-> FALSE]
    ELSE LET s1 == [self EXCEPT !.level = Add1(self.level)]
         IN  IF Bit64(s1.xcr0_supported, ToNat(s1.level))
             THEN LET res == query2(src, EAX_EXTENDED_STATE_INFO, s1.level)
                  IN  [self |-> s1,
                       ret |-> Some([subleaf |-> s1.level, eax |-> res.eax,
                                     ebx |-> res.ebx, ecx |-> res.ecx]),
                       panic |-> FALSE]
             ELSE ExtendedStateIter_next(s1, src)

(* ExtendedFunctionInfo *)

\* the length of ExtendedFunctionInfo.data
ExtendedFunctionInfo_data_len == 9

\* res is what cpuid!(EAX_EXTENDED_FUNCTION_INFO) returned.  The loop
\* for i in 1..max_eax_value+1 panics at the first i outside data.
get_extended_function_info(src, res, b) ==
    LET Fault == [ret |-> None, panic |-> TRUE]
        max_eax_value == Sub(res.eax, EAX_EXTENDED_FUNCTION_INFO)
        data(n) == [i \in 0..(ExtendedFunctionInfo_data_len - 1) |->
                      IF i = 0 THEN res
                      ELSE IF i <= n
                           THEN query1(src, Add(EAX_EXTENDED_FUNCTION_INFO, i))
                           ELSE CpuIdResult(ZERO, ZERO, ZERO, ZERO)]
    IN  IF res.eax = ZERO THEN [ret |-> None, panic |-> FALSE]
        ELSE IF Lt(res.eax, EAX_EXTENDED_FUNCTION_INFO) /\ b = "debug" THEN Fault
        ELSE IF max_eax_value = U32_MAX
             THEN IF b = "debug" THEN Fault
                  ELSE [ret |-> Some([max_eax_value |-> max_eax_value, data |-> data(0)]),
                        panic |-> FALSE]
        ELSE IF ~Lt(max_eax_value, U32(0, ExtendedFunctionInfo_data_len)) THEN Fault
        ELSE [ret |-> Some([max_eax_value |-> max_eax_value,
                            data |-> data(ToNat(max_eax_value))]),
              panic |-> FALSE]

(* CpuIdDumpIter *)

into_iter(self) ==
    [kind |-> "CpuIdDumpIter", dump |-> self, leaf |-> ZERO, current_subleaf |-> None]

\* the outcomes of one next(): keys().next() of a HashMap is any of its keys
RECURSIVE CpuIdDumpIter_next_KeepsLeaf(_)
CpuIdDumpIter_next_KeepsLeaf(self) ==
    IF IsSome(self.current_subleaf) /\ DOMAIN Unwrap(self.current_subleaf) # {}
    THEN LET subleaves == Unwrap(self.current_subleaf)
         IN  { [self |-> [self EXCEPT !.current_subleaf = Some(remove(subleaves, subleaf))],
                ret |-> Some(<<self.leaf, Some(subleaf), subleaves[subleaf]>>)] :
               subleaf \in DOMAIN subleaves }
    ELSE LET s1 == [self EXCEPT !.current_subleaf = None]
         IN  IF DOMAIN s1.dump = {}
             THEN { [self |-> s1, ret |-> None] }
             ELSE UNION {
                    LET entry == s1.dump[first_key]
                    IN  IF entry.tag = "Leaf"
                        THEN { [self |-> [s1 EXCEPT !.leaf = first_key],
                                ret |-> Some(<<first_key, None, entry.regs>>)] }
                        ELSE CpuIdDumpIter_next_KeepsLeaf(
                                 [s1 EXCEPT !.leaf = first_key,
                                            !.dump = remove(s1.dump, first_key),
                                            !.current_subleaf = Some(entry.subleaves)]) :
                    first_key \in DOMAIN s1.dump }

RECURSIVE CpuIdDumpIter_next(_)
CpuIdDumpIter_next(self) ==
    IF IsSome(self.current_subleaf) /\ DOMAIN Unwrap(self.current_subleaf) # {}
    THEN LET subleaves == Unwrap(self.current_subleaf)
         IN  { [self |-> [self EXCEPT !.current_subleaf = Some(remove(subleaves, subleaf))],
                ret |-> Some(<<self.leaf, Some(subleaf), subleaves[subleaf]>>)] :
               subleaf \in DOMAIN subleaves }
    ELSE LET s1 == [self EXCEPT !.current_subleaf = None]
         IN  IF DOMAIN s1.dump = {}
             THEN { [self |-> s1, ret |-> None] }
             ELSE UNION {
                    LET entry == s1.dump[first_key]
                        s2 == [s1 EXCEPT !.leaf = first_key,
                                         !.dump = remove(s1.dump, first_key)]
                    IN  IF entry.tag = "Leaf"
                        THEN { [self |-> s2, ret |-> Some(<<first_key, None, entry.regs>>)] }
                        ELSE CpuIdDumpIter_next(
                                 [s2 EXCEPT !.current_subleaf = Some(entry.subleaves)]) :
                    first_key \in DOMAIN s1.dump }

----------------------------------------------------------------------------
(* The sources the decoders are run on: stores built by the writer         *)

Levels == 0..MaxLevel

\* self after set_subleaf(leaf, i, table[i]) for every i in from..MaxLevel
\* that table gives a quad for
RECURSIVE WriteSubleaves(_, _, _, _)
WriteSubleaves(self, leaf, table, from) ==
    IF from > MaxLevel THEN self
    ELSE WriteSubleaves(
             IF IsSome(table[from])
             THEN set_subleaf(self, leaf, U32(0, from), table[from]).leaves
             ELSE self,
             leaf, table, from + 1)

\* the level types a source stores in ecx[15:8] of leaf Bh (3 is not one
\* the decoder knows)
LevelTypes == {0, 1, 2, 3, 255}

\* the quad of level i with level type t: ecx[7:0] is the level number
TopologyQuad(i, t) ==
    CpuIdResult(U32(0, i + 1), U32(0, 2 * (i + 1)), U32(0, 256 * t + i), ZERO)

TopologySources ==
    { WriteSubleaves(EmptyMap, EAX_EXTENDED_TOPOLOGY_INFO,
                     [i \in Levels |-> IF IsSome(sh[i])
                                       THEN Some(TopologyQuad(i, Unwrap(sh[i])))
                                       ELSE None], 0) :
      sh \in [Levels -> {None} \cup {Some(t) : t \in LevelTypes}] }

\* the cache types a source stores in eax[4:0] of leaf 4h
CacheTypes == {0, 3, 4, 31}

\* the quad of cache i with type t: eax[7:5] is the cache level
CacheQuad(i, t) ==
    CpuIdResult(U32(0, 32 * (i + 1) + t), U32(0, 63), U32(0, 64 * (i + 1) - 1), ZERO)

CacheSources ==
    { WriteSubleaves(EmptyMap, EAX_CACHE_PARAMETERS,
                     [i \in Levels |-> IF IsSome(sh[i])
                                       THEN Some(CacheQuad(i, Unwrap(sh[i])))
                                       ELSE None], 0) :
      sh \in [Levels -> {None} \cup {Some(t) : t \in CacheTypes}] }

\* the bits of EDX:EAX of leaf Dh subleaf 0 that a source sets
StateBits == {1, 2, 9, 31, 32, 62, 63}

RECURSIVE SumPow2(_)
SumPow2(S) == IF S = {} THEN 0
              ELSE LET b == CHOOSE x \in S : TRUE
                   IN  2^b + SumPow2(S \ {b})

\* the u32 whose set bits are those of S within lo..lo+31
BitsOf(S, lo) ==
    U32(SumPow2({b - lo - 16 : b \in {x \in S : lo + 16 <= x /\ x < lo + 32}}),
        SumPow2({b - lo : b \in {x \in S : lo <= x /\ x < lo + 16}}))

\* the quad stored at leaf Dh subleaf i >= 2: size in eax, offset in ebx
StateQuad(i) == CpuIdResult(U32(0, 64 * i), U32(0, 576 + i), U32(0, 1), ZERO)

StateSources ==
    { LET s0 == set_subleaf(EmptyMap, EAX_EXTENDED_STATE_INFO, U32(0, 0),
                            Some(CpuIdResult(BitsOf(S, 0), U32(0, 832),
                                             U32(0, 832), BitsOf(S, 32)))).leaves
          s2 == set_subleaf(s0, EAX_EXTENDED_STATE_INFO, U32(0, 2),
                            Some(StateQuad(2))).leaves
      IN  set_subleaf(s2, EAX_EXTENDED_STATE_INFO, U32(0, 63),
                      Some(StateQuad(63))).leaves :
      S \in SUBSET StateBits }

\* leaves 0h and 1h scalar, leaf 4h a table emptied again, leaf Bh scalar,
\* leaf Dh a table of two subleaves
MixedSource ==
    LET s1 == set_leaf(EmptyMap, LEAF_0000_0001, Some(QA)).leaves
        s2 == set_subleaf(s1, EAX_CACHE_PARAMETERS, U32(0, 0), Some(QB)).leaves
        s3 == set_subleaf(s2, EAX_CACHE_PARAMETERS, U32(0, 0), None).leaves
        s4 == set_leaf(s3, EAX_EXTENDED_TOPOLOGY_INFO, Some(TopologyQuad(0, 1))).leaves
        s5 == set_subleaf(s4, EAX_EXTENDED_STATE_INFO, U32(0, 0), Some(QA)).leaves
    IN  set_subleaf(s5, EAX_EXTENDED_STATE_INFO, U32(0, 1), Some(QA)).leaves

Sources == TopologySources \cup CacheSources \cup StateSources \cup {MixedSource}

\* what the cpuid instruction may answer for leaf 8000_0000h
ExtendedResults ==
    { CpuIdResult(eax, U32(0, 1), U32(0, 2), U32(0, 3)) :
      eax \in { ZERO, U32(0, 1), LEAF_7FFF_FFFF, LEAF_8000_0000, U32(\H8000, 8),
                U32(\H8000, 9), U32(\H8000, \H20), U32_MAX } }

Builds == {"debug", "release"}

----------------------------------------------------------------------------
(* The caller that reads a source                                          *)

InitRead ==
    /\ leaves \in Sources
    /\ panicked = FALSE
    /\ call = [op |-> "new", leaf |-> LEAF_0000_0000, subleaf |-> None, bits |-> None]
    /\ pre = EmptyMap
    /\ keys = {}
    /\ iter = NoIter
    /\ out = <<>>
    /\ build \in Builds

\* the number of times next() has returned end
Ends(o) == Cardinality({i \in 1..Len(o) : o[i] = None})

\* the caller keeps what a getter returned: an iterator on Some, nothing on None
Got(opt) ==
    /\ iter' = IF IsSome(opt) THEN Unwrap(opt) ELSE [kind |-> "unsupported"]
    /\ UNCHANGED <<leaves, panicked, call, pre, keys, out, build>>

\* the caller records what next() did
Stepped(r) ==
    /\ iter' = r.self
    /\ out' = Append(out, r.ret)
    /\ panicked' = r.panic
    /\ UNCHANGED <<leaves, call, pre, keys, build>>

GetExtendedTopologyInfo ==
    /\ ~panicked /\ iter = NoIter
    /\ Got(get_extended_topology_info(CpuId_new(leaves)))

ExtendedTopologyNext ==
    /\ ~panicked /\ iter.kind = "ExtendedTopologyIter" /\ Ends(out) < MaxEnds
    /\ Stepped(ExtendedTopologyIter_next(iter, leaves))

GetCacheParameters ==
    /\ ~panicked /\ iter = NoIter
    /\ Got(get_cache_parameters(CpuId_new(leaves)))

CacheParametersNext ==
    /\ ~panicked /\ iter.kind = "CacheParametersIter" /\ Ends(out) < MaxEnds
    /\ Stepped(CacheParametersIter_next(iter, leaves))

GetExtendedStateInfo ==
    /\ ~panicked /\ iter = NoIter
    /\ Got(get_extended_state_info(CpuId_new(leaves), leaves))

ExtendedStateInfoIter ==
    /\ ~panicked /\ iter.kind = "ExtendedStateInfo"
    /\ Got(Some(ExtendedStateInfo_iter(iter)))

ExtendedStateNext ==
    /\ ~panicked /\ iter.kind = "ExtendedStateIter" /\ Ends(out) < MaxEnds
    /\ Stepped(ExtendedStateIter_next(iter, leaves))

\* the store is moved into the iterator; leaves keeps the value it had
IntoIter ==
    /\ ~panicked /\ iter = NoIter
    /\ Got(Some(into_iter(leaves)))

CpuIdDumpIterNext ==
    /\ ~panicked /\ iter.kind = "CpuIdDumpIter" /\ Ends(out) < MaxEnds
    /\ \E r \in CpuIdDumpIter_next(iter) :
          Stepped([self |-> r.self, ret |-> r.ret, panic |-> FALSE])

GetExtendedFunctionInfo(res) ==
    /\ ~panicked /\ iter = NoIter
    /\ LET r == get_extended_function_info(leaves, res, build)
       IN  /\ iter' = [kind |-> "get_extended_function_info", res |-> res]
           /\ out' = <<r.ret>>
           /\ panicked' = r.panic
    /\ UNCHANGED <<leaves, call, pre, keys, build>>

NextRead ==
    \/ GetExtendedTopologyInfo
    \/ ExtendedTopologyNext
    \/ GetCacheParameters
    \/ CacheParametersNext
    \/ GetExtendedStateInfo
    \/ ExtendedStateInfoIter
    \/ ExtendedStateNext
    \/ IntoIter
    \/ CpuIdDumpIterNext
    \/ \E res \in ExtendedResults : GetExtendedFunctionInfo(res)

SpecRead == InitRead /\ [][NextRead]_vars

----------------------------------------------------------------------------
(* C16                                                                     *)

\* the end predicate of leaf Bh: the level-type field ecx[15:8] is 0
TopologyEnd(q) == get_bits(q.ecx, 8, 15) = 0

\* the end predicate of leaf 4h: the type field eax[4:0] is 0 or >= 4
CacheEnd(q) == get_bits(q.eax, 0, 4) = 0 \/ get_bits(q.eax, 0, 4) >= 4

\* the level types stored at leaf Bh of m are all in {0, 1, 2}
KnownLevelTypes(m) ==
    IsSubleafTable(m, EAX_EXTENDED_TOPOLOGY_INFO) =>
        \A s \in DOMAIN m[EAX_EXTENDED_TOPOLOGY_INFO].subleaves :
            get_bits(m[EAX_EXTENDED_TOPOLOGY_INFO].subleaves[s].ecx, 8, 15) \in {0, 1, 2}

\* the sequence decoder the caller holds reads leaf DecodedLeaf and ends on
\* DecodedEnd
Decoding == iter.kind \in {"ExtendedTopologyIter", "CacheParametersIter"}
DecodedLeaf == IF iter.kind = "ExtendedTopologyIter" THEN EAX_EXTENDED_TOPOLOGY_INFO
               ELSE EAX_CACHE_PARAMETERS
DecodedEnd(q) == IF iter.kind = "ExtendedTopologyIter" THEN TopologyEnd(q)
                 ELSE CacheEnd(q)

\* the least subleaf index of the decoded leaf whose quad satisfies the end
\* predicate: the sources store no subleaf above MaxLevel
FirstEnd ==
    CHOOSE n \in 0..(MaxLevel + 1) :
        /\ DecodedEnd(cpuid2(leaves, DecodedLeaf, U32(0, n)))
        /\ \A i \in 0..(n - 1) : ~DecodedEnd(cpuid2(leaves, DecodedLeaf, U32(0, i)))

\* C16: a topology or cache-parameter decoder over a store whose level types
\* are in {0, 1, 2} returns, on its first n calls of next(), the quads of
\* subleaves 0..n-1 in that order, and on call n+1 the end, where n is the
\* least subleaf index whose quad satisfies the end predicate; it does not
\* fault.
C16_SequenceTermination ==
    (Decoding /\ KnownLevelTypes(leaves)) =>
        /\ ~panicked
        /\ \A j \in 1..Len(out) :
              /\ j <= FirstEnd => out[j] = Some(cpuid2(leaves, DecodedLeaf, U32(0, j - 1)))
              /\ j = FirstEnd + 1 => out[j] = None

\* subleaves 0 and 1 of leaf Bh are valid and subleaf 2 is stored with level
\* type 0: the decoder has yielded 2 items and then the end
C16_Witness ==
    /\ iter.kind = "ExtendedTopologyIter"
    /\ IsSubleafTable(leaves, EAX_EXTENDED_TOPOLOGY_INFO)
    /\ DOMAIN leaves[EAX_EXTENDED_TOPOLOGY_INFO].subleaves = {U32(0, 0), U32(0, 1), U32(0, 2)}
    /\ out = << Some(TopologyQuad(0, 1)), Some(TopologyQuad(1, 2)), None >>

\* a cache decoder has yielded 2 items and ended on a reserved type
C16_WitnessCache ==
    /\ iter.kind = "CacheParametersIter"
    /\ out = << Some(CacheQuad(0, 3)), Some(CacheQuad(1, 3)), None >>
    /\ cpuid2(leaves, EAX_CACHE_PARAMETERS, U32(0, 2)) = CacheQuad(2, 4)

----------------------------------------------------------------------------
(* C17                                                                     *)

\* the number of items next() has yielded
Yields(o) == Cardinality({i \in 1..Len(o) : o[i] # None})

\* C17: for a topology or cache-parameter decoder over an unchanged store
\* whose level types are in {0, 1, 2}, the subleaf counter equals the number
\* of items yielded so far, and once next() has returned the end every later
\* next() returns the end.
C17_EndIsSticky ==
    (Decoding /\ KnownLevelTypes(leaves) /\ ~panicked) =>
        /\ (IF iter.kind = "ExtendedTopologyIter" THEN iter.level ELSE iter.current)
               = U32(0, Yields(out))
        /\ \A i, j \in 1..Len(out) : (i < j /\ out[i] = None) => out[j] = None

\* the same for the cache-parameter decoder alone
C17_CacheEndIsSticky ==
    (iter.kind = "CacheParametersIter" /\ ~panicked) =>
        /\ iter.current = U32(0, Yields(out))
        /\ \A i, j \in 1..Len(out) : (i < j /\ out[i] = None) => out[j] = None

\* the topology decoder has yielded subleaf 2 after having returned the end
\* at the absent subleaf 1
C17_TopologyResumes ==
    /\ iter.kind = "ExtendedTopologyIter"
    /\ KnownLevelTypes(leaves)
    /\ out = << Some(TopologyQuad(0, 1)), None, Some(TopologyQuad(2, 2)) >>

----------------------------------------------------------------------------
(* C18                                                                     *)

\* V: EDX:EAX of leaf Dh subleaf 0 of the source
StateVector ==
    LET res == cpuid2(leaves, EAX_EXTENDED_STATE_INFO, U32(0, 0))
    IN  [hi |-> res.edx, lo |-> res.eax]

\* the indices 2..62 whose bit of V is set
StateIndices == {i \in 2..62 : Bit64(StateVector, i)}

\* the j-th smallest of them
StateIndex(j) == CHOOSE i \in StateIndices : Cardinality({x \in StateIndices : x < i}) = j - 1

\* the item of index i
StateItem(i) ==
    LET res == cpuid2(leaves, EAX_EXTENDED_STATE_INFO, U32(0, i))
    IN  [subleaf |-> U32(0, i), eax |-> res.eax, ebx |-> res.ebx, ecx |-> res.ecx]

\* C18: the calls of next() on ExtendedStateInfo::iter return the items of
\* the indices 2..62 whose bit of V is set, in increasing order, each with
\* its subleaf index and the registers of cpuid2(Dh, i), and the end on
\* every call after them.
C18_ExtendedStateEnumeration ==
    iter.kind = "ExtendedStateIter" =>
        /\ ~panicked
        /\ \A j \in 1..Len(out) :
              IF j <= Cardinality(StateIndices)
              THEN out[j] = Some(StateItem(StateIndex(j)))
              ELSE out[j] = None

\* bit 63 of V is set and the iterator has yielded an item of subleaf 63
C18_YieldsIndex63 ==
    /\ iter.kind = "ExtendedStateIter"
    /\ Bit64(StateVector, 63)
    /\ Len(out) > 0
    /\ out[Len(out)] # None
    /\ Unwrap(out[Len(out)]).subleaf = U32(0, 63)

----------------------------------------------------------------------------
(* C19                                                                     *)

\* the triples a store holds: one for each scalar leaf, one for each entry of
\* each table
Triples(m) ==
    {<<L, None, m[L].regs>> : L \in {k \in DOMAIN m : m[k].tag = "Leaf"}}
    \cup UNION { {<<L, Some(s), m[L].subleaves[s]>> : s \in DOMAIN m[L].subleaves} :
                 L \in {k \in DOMAIN m : m[k].tag = "Subleaf"} }

\* C19: with N the number of triples of the drained store, the first N calls
\* of next() return triples of the store, no two the same, the triples of
\* one leaf next to each other, and every call after them returns the end;
\* draining does not fault.
C19_Drain ==
    iter.kind = "CpuIdDumpIter" =>
        LET N == Cardinality(Triples(leaves))
            Got1 == 1..(IF Len(out) < N THEN Len(out) ELSE N)
        IN  /\ ~panicked
            /\ \A i \in 1..Len(out) :
                  IF i <= N THEN out[i] # None /\ Unwrap(out[i]) \in Triples(leaves)
                  ELSE out[i] = None
            /\ \A i, j \in Got1 : i # j => out[i] # out[j]
            /\ \A i, j, k \in Got1 :
                  (i < j /\ j < k /\ Unwrap(out[i])[1] = Unwrap(out[k])[1])
                      => Unwrap(out[j])[1] = Unwrap(out[i])[1]
            /\ Len(out) >= N =>
                  /\ {Unwrap(out[i]) : i \in Got1} = Triples(leaves)
                  /\ \A r \in CpuIdDumpIter_next(iter) : r.ret = None

\* a store of three scalar leaves (the synthesized leaf 0h among them), an
\* empty table and a table of two subleaves was drained: 5 triples, then the
\* end twice
C19_Witness ==
    /\ iter.kind = "CpuIdDumpIter"
    /\ leaves = MixedSource
    /\ IsScalar(leaves, LEAF_0000_0000)
    /\ IsSubleafTable(leaves, EAX_CACHE_PARAMETERS)
    /\ leaves[EAX_CACHE_PARAMETERS].subleaves = EmptyMap
    /\ Len(out) = 7
    /\ out[5] # None /\ out[6] = None /\ out[7] = None
    /\ \E i \in 1..4 : /\ Unwrap(out[i])[1] = EAX_EXTENDED_STATE_INFO
                       /\ Unwrap(out[i + 1])[1] = EAX_EXTENDED_STATE_INFO

----------------------------------------------------------------------------
(* C20                                                                     *)

\* C20: get_extended_function_info returns None or a view, without a fault,
\* whatever eax the source answers for leaf 8000_0000h.
C20_ExtendedRangeNeverFaults ==
    iter.kind = "get_extended_function_info" => ~panicked

\* it has faulted on eax = 8000_0020h
C20_FaultsOnLargeRange ==
    /\ iter.kind = "get_extended_function_info"
    /\ iter.res.eax = U32(\H8000, \H20)
    /\ panicked

----------------------------------------------------------------------------
(* The caller that queries a store, repeating one query                    *)

\* a run repeats its query this many times
MaxQueries == 2

\* the leaves and subleaves the caller asks for: stored ones and absent ones
AskedLeaves == {LEAF_0000_0000, EAX_CACHE_PARAMETERS, EAX_EXTENDED_TOPOLOGY_INFO,
                EAX_EXTENDED_STATE_INFO, LEAF_8000_0001}
AskedSubleaves == {U32(0, 0), U32(0, 1), U32(0, MaxLevel + 1)}

\* cpuid1 takes &self: the store is as it was
Cpuid1(leaf) ==
    /\ ~panicked
    /\ iter = NoIter \/ (iter.kind = "cpuid1" /\ iter.leaf = leaf)
    /\ Len(out) < MaxQueries
    /\ iter' = [kind |-> "cpuid1", leaf |-> leaf]
    /\ out' = Append(out, cpuid1(leaves, leaf))
    /\ pre' = leaves
    /\ UNCHANGED <<leaves, panicked, call, keys, build>>

\* cpuid2 takes &self: the store is as it was
Cpuid2(leaf, subleaf) ==
    /\ ~panicked
    /\ iter = NoIter \/ (iter.kind = "cpuid2" /\ iter.leaf = leaf /\ iter.subleaf = subleaf)
    /\ Len(out) < MaxQueries
    /\ iter' = [kind |-> "cpuid2", leaf |-> leaf, subleaf |-> subleaf]
    /\ out' = Append(out, cpuid2(leaves, leaf, subleaf))
    /\ pre' = leaves
    /\ UNCHANGED <<leaves, panicked, call, keys, build>>

NextQuery ==
    \/ \E leaf \in AskedLeaves : Cpuid1(leaf)
    \/ \E leaf \in AskedLeaves, subleaf \in AskedSubleaves : Cpuid2(leaf, subleaf)

SpecQuery == InitRead /\ [][NextQuery]_vars

----------------------------------------------------------------------------
(* C24                                                                     *)

\* a quad of four u32
IsQuad(q) ==
    /\ DOMAIN q = {"eax", "ebx", "ecx", "edx"}
    /\ \A r \in DOMAIN q : q[r] \in (0..65535) \X (0..65535)

C24_WitnessStored ==
    /\ iter.kind = "cpuid2"
    /\ iter.leaf = EAX_EXTENDED_TOPOLOGY_INFO /\ iter.subleaf = U32(0, 1)
    /\ out = <<TopologyQuad(1, 2), TopologyQuad(1, 2)>>

----------------------------------------------------------------------------
(* C25                                                                     *)

\* C25: after every non-faulting call, each bookkeeping leaf B is a Scalar
\* when present, and is present iff a key of its range is stored; and a
\* non-faulting set_leaf(B, None) leaves B absent when no other key of its
\* range was stored, and otherwise leaves B a Scalar with eax = the largest
\* of those keys and ebx = ecx = edx = 0.
C25_BookkeepingShapeAndPresence ==
    ~panicked =>
        \A B \in Bookkeeping :
            /\ contains_key(leaves, B) => IsScalar(leaves, B)
            /\ contains_key(leaves, B) <=> RangeKeys(leaves, B) # {}
            /\ (call.op = "set_leaf" /\ call.leaf = B /\ call.bits = None) =>
                  IF RangeKeys(pre, B) \ {B} = {}
                  THEN ~contains_key(leaves, B)
                  ELSE leaves[B] = Leaf([eax |-> Largest(RangeKeys(pre, B) \ {B}),
                                         ebx |-> ZERO, ecx |-> ZERO, edx |-> ZERO])

\* leaf 0x0 held QA's ebx, ecx and edx next to 0x3FFF_FFFF and was removed:
\* it is stored again, with eax = 0x3FFF_FFFF and the rest zero
C25_Witness ==
    /\ ~panicked
    /\ call.op = "set_leaf" /\ call.leaf = LEAF_0000_0000 /\ call.bits = None
    /\ IsScalar(pre, LEAF_0000_0000) /\ pre[LEAF_0000_0000].regs.ebx = QA.ebx
    /\ contains_key(pre, LEAF_3FFF_FFFF)
    /\ leaves[LEAF_0000_0000] = Leaf([eax |-> LEAF_3FFF_FFFF, ebx |-> ZERO,
                                      ecx |-> ZERO, edx |-> ZERO])

\* leaf 0x4000_0000 was the sole key of its range and was removed
C25_WitnessSole ==
    /\ ~panicked
    /\ call.op = "set_leaf" /\ call.leaf = LEAF_4000_0000 /\ call.bits = None
    /\ RangeKeys(pre, LEAF_4000_0000) = {LEAF_4000_0000}
    /\ ~contains_key(leaves, LEAF_4000_0000)

----------------------------------------------------------------------------
(* C26                                                                     *)

\* entry k of m2 is entry k of m1
SameEntry(m1, m2, k) ==
    /\ contains_key(m1, k) <=> contains_key(m2, k)
    /\ contains_key(m1, k) => m2[k] = m1[k]

\* C26: a non-faulting set_leaf or set_subleaf on leaf L leaves every entry
\* other than L as it was, except that the bookkeeping leaf of L's own range
\* may come into being or get another eax (its ebx, ecx, edx stay), and that
\* set_leaf(0x1, Some(Q)) may change the mirror-mask bits of edx of a Scalar
\* leaf 0x8000_0001 (its other bits and registers stay).
C26_FrameOfWrite ==
    (~panicked /\ call.op # "new") =>
        \A k \in (DOMAIN pre \cup DOMAIN leaves) \ {call.leaf} :
            IF k \in BookkeepingOf(call.leaf)
            THEN contains_key(pre, k) =>
                    /\ contains_key(leaves, k)
                    /\ leaves[k].tag = pre[k].tag
                    /\ leaves[k].tag = "Leaf" =>
                          leaves[k].regs = [pre[k].regs EXCEPT !.eax = leaves[k].regs.eax]
            ELSE IF /\ k = LEAF_8000_0001 /\ IsScalar(pre, k)
                    /\ call.op = "set_leaf" /\ call.leaf = LEAF_0000_0001
                    /\ IsSome(call.bits)
            THEN /\ IsScalar(leaves, k)
                 /\ [leaves[k].regs EXCEPT !.edx = ZERO] = [pre[k].regs EXCEPT !.edx = ZERO]
                 /\ BitAnd(leaves[k].regs.edx, BitNot(MIRROR_MASK))
                        = BitAnd(pre[k].regs.edx, BitNot(MIRROR_MASK))
            ELSE SameEntry(pre, leaves, k)

\* set_leaf(0x1, Some(Q)) changed edx of leaf 0x8000_0001 and nothing of the
\* bookkeeping leaf 0x8000_0000
C26_Witness ==
    /\ ~panicked
    /\ call.op = "set_leaf" /\ call.leaf = LEAF_0000_0001 /\ IsSome(call.bits)
    /\ IsScalar(pre, LEAF_8000_0001) /\ IsScalar(leaves, LEAF_8000_0001)
    /\ leaves[LEAF_8000_0001].regs.edx # pre[LEAF_8000_0001].regs.edx
    /\ IsScalar(pre, LEAF_8000_0000)
    /\ leaves[LEAF_8000_0000] = pre[LEAF_8000_0000]

\* a write in the extended range with the hypervisor range populated
C26_WitnessOtherRange ==
    /\ ~panicked
    /\ call.op = "set_leaf" /\ call.leaf = LEAF_8000_0000 /\ IsSome(call.bits)
    /\ ~contains_key(pre, LEAF_8000_0000)
    /\ IsScalar(pre, LEAF_4000_0000)
    /\ leaves[LEAF_4000_0000] = pre[LEAF_4000_0000]

----------------------------------------------------------------------------
(* C27                                                                     *)

\* set_leaf(L, Some(Q)) then set_leaf(L, None) on store m
InsertThenRemove(m, L, Q) ==
    LET a == set_leaf(m, L, Some(Q))
        b == set_leaf(a.leaves, L, None)
    IN  [leaves |-> b.leaves, panic |-> a.panic \/ b.panic]

\* leaf 0x8000_0001 of m2 is the Scalar leaf 0x8000_0001 of m1 with the
\* mirror-mask bits of its edx replaced by those of Q.edx
MaskBitsFrom(m1, m2, Q) ==
    /\ IsScalar(m2, LEAF_8000_0001)
    /\ m2[LEAF_8000_0001].regs =
          [m1[LEAF_8000_0001].regs EXCEPT
              !.edx = BitOr(BitAnd(@, BitNot(MaskValue)), BitAnd(Q.edx, MaskValue))]

\* the stores m1 and m2 answer cpuid1 and cpuid2 alike on every leaf not in X
SameAnswersExcept(m1, m2, X) ==
    \A l \in (QueryLeaves \cup DOMAIN m1 \cup DOMAIN m2) \ X :
        /\ cpuid1(m1, l) = cpuid1(m2, l)
        /\ \A s \in QuerySubleaves : cpuid2(m1, l, s) = cpuid2(m2, l, s)

\* the leaves whose answers the pair of calls on L may change in store m
Mirrored(m, L) ==
    IF L = LEAF_0000_0001 /\ IsScalar(m, LEAF_8000_0001) THEN {LEAF_8000_0001} ELSE {}

\* C27 as stated: on a store reached without fault where the non-bookkeeping
\* leaf L is absent, set_leaf(L, Some(Q)) then set_leaf(L, None), when
\* neither faults, restore the answer of every cpuid1 and cpuid2, except
\* that for L = 0x1 a Scalar leaf 0x8000_0001 has Q's mirror-mask bits in edx.
C27_InsertThenRemoveRestores ==
    ~panicked =>
        \A L \in keys \ Bookkeeping, Q \in Quads :
            LET r == InsertThenRemove(leaves, L, Q)
            IN  (~contains_key(leaves, L) /\ ~r.panic) =>
                   /\ SameAnswersExcept(leaves, r.leaves, Mirrored(leaves, L))
                   /\ Mirrored(leaves, L) # {} => MaskBitsFrom(leaves, r.leaves, Q)

\* C27 amended: the same, except that a bookkeeping leaf B of L's range that
\* was absent is stored afterwards and answers cpuid1 with eax = B and
\* ebx = ecx = edx = 0 (all-zero for B = 0x0 only).
C27_InsertThenRemoveRestoresButNewBookkeeping ==
    ~panicked =>
        \A L \in keys \ Bookkeeping, Q \in Quads :
            LET r == InsertThenRemove(leaves, L, Q)
                New == BookkeepingOf(L) \ DOMAIN leaves
            IN  (~contains_key(leaves, L) /\ ~r.panic) =>
                   /\ SameAnswersExcept(leaves, r.leaves, Mirrored(leaves, L) \cup New)
                   /\ Mirrored(leaves, L) # {} => MaskBitsFrom(leaves, r.leaves, Q)
                   /\ \A B \in New :
                         /\ cpuid1(r.leaves, B) = [ZeroQuad EXCEPT !.eax = B]
                         /\ \A s \in QuerySubleaves : cpuid2(r.leaves, B, s) = ZeroQuad

\* 0x7FFF_FFFF was written and removed again on the empty store: leaf
\* 0x4000_0000 is stored and answers with eax = 0x4000_0000
C27_Witness ==
    /\ ~panicked
    /\ call.op = "set_leaf" /\ call.leaf = LEAF_7FFF_FFFF /\ call.bits = None
    /\ IsScalar(pre, LEAF_7FFF_FFFF)
    /\ leaves = InsertThenRemove(EmptyMap, LEAF_7FFF_FFFF, pre[LEAF_7FFF_FFFF].regs).leaves
    /\ cpuid1(leaves, LEAF_4000_0000) = [ZeroQuad EXCEPT !.eax = LEAF_4000_0000]

----------------------------------------------------------------------------
(* The caller that exports a store and replays it into an empty one        *)

\* the exported stores are those reached by at most this many writes
MaxWrites == 2

ReplayLeaves == {LEAF_0000_0001, LEAF_8000_0001, LEAF_4000_0000, LEAF_7FFF_FFFF}

\* the stores one non-faulting write away from store m
Written(m) ==
    { r.leaves : r \in { x \in {set_leaf(m, L, b) : L \in ReplayLeaves, b \in OptQuads}
                                \cup {set_subleaf(m, L, s, b) :
                                        L \in ReplayLeaves, s \in Subleaves, b \in OptQuads} :
                         ~x.panic } }

\* the stores reached from the empty one by at most n non-faulting writes
RECURSIVE Reached(_)
Reached(n) ==
    IF n = 0 THEN {EmptyMap}
    ELSE LET R == Reached(n - 1) IN R \cup UNION {Written(m) : m \in R}

\* the triples of iter.source are those its draining yields; none is
\* replayed yet and the store written to is empty
InitReplay ==
    /\ \E S \in Reached(MaxWrites) :
          iter = [kind |-> "replay", source |-> S, remaining |-> Triples(S)]
    /\ leaves = EmptyMap
    /\ panicked = FALSE
    /\ call = [op |-> "new", leaf |-> LEAF_0000_0000, subleaf |-> None, bits |-> None]
    /\ pre = EmptyMap
    /\ keys = {}
    /\ out = <<>>
    /\ build = "debug"

\* set_leaf for a triple (L, None, q)
ReplayLeaf(t) ==
    /\ ~panicked /\ iter.kind = "replay"
    /\ t \in iter.remaining /\ t[2] = None
    /\ LET r == set_leaf(leaves, t[1], Some(t[3]))
       IN  /\ leaves' = r.leaves
           /\ panicked' = r.panic
    /\ call' = [op |-> "set_leaf", leaf |-> t[1], subleaf |-> None, bits |-> Some(t[3])]
    /\ pre' = leaves
    /\ iter' = [iter EXCEPT !.remaining = @ \ {t}]
    /\ UNCHANGED <<keys, out, build>>

\* set_subleaf for a triple (L, Some(s), q)
ReplaySubleaf(t) ==
    /\ ~panicked /\ iter.kind = "replay"
    /\ t \in iter.remaining /\ t[2] # None
    /\ LET r == set_subleaf(leaves, t[1], Unwrap(t[2]), Some(t[3]))
       IN  /\ leaves' = r.leaves
           /\ panicked' = r.panic
    /\ call' = [op |-> "set_subleaf", leaf |-> t[1], subleaf |-> t[2], bits |-> Some(t[3])]
    /\ pre' = leaves
    /\ iter' = [iter EXCEPT !.remaining = @ \ {t}]
    /\ UNCHANGED <<keys, out, build>>

NextReplay ==
    \/ \E t \in iter.remaining : ReplayLeaf(t)
    \/ \E t \in iter.remaining : ReplaySubleaf(t)

SpecReplay == InitReplay /\ [][NextReplay]_vars

----------------------------------------------------------------------------
(* C28                                                                     *)

\* S holds no empty table, and neither 0x1 nor 0x8000_0001 as a table
Replayable(S) ==
    /\ \A L \in DOMAIN S : S[L].tag = "Subleaf" => S[L].subleaves # EmptyMap
    /\ ~IsSubleafTable(S, LEAF_0000_0001)
    /\ ~IsSubleafTable(S, LEAF_8000_0001)

\* C28: when the exported store S holds no empty table and neither 0x1 nor
\* 0x8000_0001 as a table, replaying its triples into an empty store, in
\* whatever order, does not fault, and once all are replayed the store
\* answers every cpuid1 and cpuid2 as S does.
C28_ExportReplayRoundTrip ==
    (iter.kind = "replay" /\ Replayable(iter.source)) =>
        /\ ~panicked
        /\ iter.remaining = {} => SameAnswers(iter.source, leaves)

\* a store holding 0x1 and 0x8000_0001 as scalars and two bookkeeping leaves
\* was replayed, leaf 0x1 last
C28_Witness ==
    /\ iter.kind = "replay" /\ Replayable(iter.source)
    /\ IsScalar(iter.source, LEAF_0000_0001) /\ IsScalar(iter.source, LEAF_8000_0001)
    /\ Cardinality(Triples(iter.source)) = 4
    /\ iter.remaining = {}
    /\ call.op = "set_leaf" /\ call.leaf = LEAF_0000_0001
    /\ ~panicked
    /\ leaves = iter.source

\* a table was replayed, its subleaf last
C28_WitnessTable ==
    /\ iter.kind = "replay" /\ Replayable(iter.source)
    /\ iter.remaining = {}
    /\ call.op = "set_subleaf"
    /\ Cardinality(Triples(iter.source)) = 3
    /\ leaves = iter.source

\* replaying a store that holds 0x1 as a table has faulted
C28_ReplayFaulted ==
    /\ iter.kind = "replay"
    /\ IsSubleafTable(iter.source, LEAF_0000_0001)
    /\ panicked

\* replaying a store that holds an empty table has ended with a smaller
\* bookkeeping maximum
C28_ReplaySmallerMaximum ==
    /\ iter.kind = "replay" /\ iter.remaining = {} /\ ~panicked
    /\ \E B \in Bookkeeping : Lt(cpuid1(leaves, B).eax, cpuid1(iter.source, B).eax)


----------------------------------------------------------------------------
(* The standard-leaf getters of CpuId                                      *)

EAX_FEATURE_INFO == U32(0, 1)
EAX_CACHE_INFO == U32(0, 2)
EAX_PROCESSOR_SERIAL == U32(0, 3)
EAX_MONITOR_MWAIT_INFO == U32(0, 5)
EAX_THERMAL_POWER_INFO == U32(0, 6)
EAX_STRUCTURED_EXTENDED_FEATURE_INFO == U32(0, 7)
EAX_DIRECT_CACHE_ACCESS_INFO == U32(0, 9)
EAX_PERFORMANCE_MONITOR_INFO == U32(0, 10)
EAX_QOS_INFO == U32(0, 15)

get_vendor_info(self, src) ==
    IF leaf_is_supported(self, EAX_VENDOR_INFO)
    THEN LET res == query1(src, EAX_VENDOR_INFO)
         IN  Some([kind |-> "VendorInfo", ebx |-> res.ebx, ecx |-> res.ecx,
                   edx |-> res.edx])
    ELSE None

get_feature_info(self, src) ==
    IF leaf_is_supported(self, EAX_FEATURE_INFO)
    THEN LET res == query1(src, EAX_FEATURE_INFO)
         IN  Some([kind |-> "FeatureInfo", eax |-> res.eax, ebx |-> res.ebx,
                   ecx |-> res.ecx, edx |-> res.edx])
    ELSE None

get_cache_info(self, src) ==
    IF leaf_is_supported(self, EAX_CACHE_INFO)
    THEN LET res == query1(src, EAX_CACHE_INFO)
         IN  Some([kind |-> "CacheInfoIter", current |-> 1, eax |-> res.eax,
                   ebx |-> res.ebx, ecx |-> res.ecx, edx |-> res.edx])
    ELSE None

get_processor_serial(self, src) ==
    IF leaf_is_supported(self, EAX_PROCESSOR_SERIAL)
    THEN LET res == query1(src, EAX_PROCESSOR_SERIAL)
         IN  Some([kind |-> "ProcessorSerial", ecx |-> res.ecx, edx |-> res.edx])
    ELSE None

get_monitor_mwait_info(self, src) ==
    IF leaf_is_supported(self, EAX_MONITOR_MWAIT_INFO)
    THEN LET res == query1(src, EAX_MONITOR_MWAIT_INFO)
         IN  Some([kind |-> "MonitorMwaitInfo", eax |-> res.eax, ebx |-> res.ebx,
                   ecx |-> res.ecx, edx |-> res.edx])
    ELSE None

get_thermal_power_info(self, src) ==
    IF leaf_is_supported(self, EAX_THERMAL_POWER_INFO)
    THEN LET res == query1(src, EAX_THERMAL_POWER_INFO)
         IN  Some([kind |-> "ThermalPowerInfo", eax |-> res.eax, ebx |-> res.ebx,
                   ecx |-> res.ecx, edx |-> res.edx])
    ELSE None

\* returns what the call returns, or panic when assert!(res.eax == 0) fails
get_extended_feature_info(self, src) ==
    IF leaf_is_supported(self, EAX_STRUCTURED_EXTENDED_FEATURE_INFO)
    THEN LET res == query1(src, EAX_STRUCTURED_EXTENDED_FEATURE_INFO)
         IN  IF res.eax # ZERO
             THEN [ret |-> None, panic |-> TRUE]
             ELSE [ret |-> Some([kind |-> "ExtendedFeatures", eax |-> res.eax,
                                 ebx |-> res.ebx, ecx |-> res.ecx,
                                 edx |-> res.edx]),
                   panic |-> FALSE]
    ELSE [ret |-> None, panic |-> FALSE]

get_direct_cache_access_info(self, src) ==
    IF leaf_is_supported(self, EAX_DIRECT_CACHE_ACCESS_INFO)
    THEN LET res == query1(src, EAX_DIRECT_CACHE_ACCESS_INFO)
         IN  Some([kind |-> "DirectCacheAccessInfo", eax |-> res.eax])
    ELSE None

get_performance_monitoring_info(self, src) ==
    IF leaf_is_supported(self, EAX_PERFORMANCE_MONITOR_INFO)
    THEN LET res == query1(src, EAX_PERFORMANCE_MONITOR_INFO)
         IN  Some([kind |-> "PerformanceMonitoringInfo", eax |-> res.eax,
                   ebx |-> res.ebx, ecx |-> res.ecx, edx |-> res.edx])
    ELSE None

\* both subleaves are queried before the leaf is tested
get_quality_of_service_info(self, src) ==
    LET res == query2(src, EAX_QOS_INFO, U32(0, 0))
        res1 == query2(src, EAX_QOS_INFO, U32(0, 1))
    IN  IF leaf_is_supported(self, EAX_QOS_INFO)
        THEN Some([kind |-> "QoSInfo", ebx0 |-> res.ebx, edx0 |-> res.edx,
                   ebx1 |-> res1.ebx, ecx1 |-> res1.ecx, edx1 |-> res1.edx])
        ELSE None

\* self.eax1 & mask > 0
has_xsaveopt(self) == BitAnd(self.eax1, U32(0, \H0001)) # ZERO
has_xsavec(self) == BitAnd(self.eax1, U32(0, \H0b10)) # ZERO
has_xgetbv(self) == BitAnd(self.eax1, U32(0, \Hb100)) # ZERO
has_xsaves_xrstors(self) == BitAnd(self.eax1, U32(\H000b, \H1000)) # ZERO


----------------------------------------------------------------------------
(* The caller of the standard-leaf getters                                 *)

\* the largest standard leaf a source stores
MaxTop == 16

\* what leaf 7h and leaf Dh subleaf 1 hold in eax
Eax7Values == {ZERO, U32(0, 1), U32(\H8000, 0)}
Eax1Values ==
    {U32(0, n) : n \in 0..15} \cup
    {U32(0, \H0010), U32(0, \H0100), U32(0, \H0b10), U32(0, \H1000), U32(0, \Hb100),
     U32(1, 0), U32(\H000b, \H1000), U32(\H8000, 0), U32(\HFFFF, \HFFF0),
     U32(\HFFFF, \HFFFF)}

\* a store whose largest standard leaf is top, with leaf 7h scalar and
\* leaf Dh a table when they are not above top
FacadeSource(top, e7, e1) ==
    LET s7 == IF top >= 7
              THEN set_leaf(EmptyMap, EAX_STRUCTURED_EXTENDED_FEATURE_INFO,
                            Some(CpuIdResult(e7, U32(0, 9), ZERO, ZERO))).leaves
              ELSE EmptyMap
        s13 == IF top >= 13
               THEN set_subleaf(
                        set_subleaf(s7, EAX_EXTENDED_STATE_INFO, U32(0, 0),
                                    Some(CpuIdResult(U32(0, 7), U32(0, 832),
                                                     U32(0, 832), ZERO))).leaves,
                        EAX_EXTENDED_STATE_INFO, U32(0, 1),
                        Some(CpuIdResult(e1, ZERO, ZERO, ZERO))).leaves
               ELSE s7
    IN  IF top \in {7, 13} THEN s13
        ELSE set_leaf(s13, U32(0, top), Some(QA)).leaves

FacadeSources ==
    {FacadeSource(top, e7, e1) : top \in 0..MaxTop, e7 \in Eax7Values, e1 \in Eax1Values}

InitFacade ==
    /\ leaves \in FacadeSources
    /\ panicked = FALSE
    /\ call = [op |-> "new", leaf |-> LEAF_0000_0000, subleaf |-> None, bits |-> None]
    /\ pre = EmptyMap
    /\ keys = {}
    /\ iter = NoIter
    /\ out = <<>>
    /\ build = "debug"

\* a getter that cannot panic
Returns(opt) == [ret |-> opt, panic |-> FALSE]

\* the caller keeps what the getter fn of leaf returned, unless it panicked
Returned(fn, leaf, r) ==
    /\ ~panicked /\ iter = NoIter
    /\ call' = [op |-> fn, leaf |-> leaf, subleaf |-> None, bits |-> None]
    /\ panicked' = r.panic
    /\ iter' = IF r.panic THEN iter
               ELSE IF IsSome(r.ret) THEN Unwrap(r.ret)
               ELSE [kind |-> "unsupported"]
    /\ UNCHANGED <<leaves, pre, keys, out, build>>

FacadeGetVendorInfo ==
    Returned("get_vendor_info", EAX_VENDOR_INFO,
             Returns(get_vendor_info(CpuId_new(leaves), leaves)))

FacadeGetFeatureInfo ==
    Returned("get_feature_info", EAX_FEATURE_INFO,
             Returns(get_feature_info(CpuId_new(leaves), leaves)))

FacadeGetCacheInfo ==
    Returned("get_cache_info", EAX_CACHE_INFO,
             Returns(get_cache_info(CpuId_new(leaves), leaves)))

FacadeGetProcessorSerial ==
    Returned("get_processor_serial", EAX_PROCESSOR_SERIAL,
             Returns(get_processor_serial(CpuId_new(leaves), leaves)))

FacadeGetCacheParameters ==
    Returned("get_cache_parameters", EAX_CACHE_PARAMETERS,
             Returns(get_cache_parameters(CpuId_new(leaves))))

FacadeGetMonitorMwaitInfo ==
    Returned("get_monitor_mwait_info", EAX_MONITOR_MWAIT_INFO,
             Returns(get_monitor_mwait_info(CpuId_new(leaves), leaves)))

FacadeGetThermalPowerInfo ==
    Returned("get_thermal_power_info", EAX_THERMAL_POWER_INFO,
             Returns(get_thermal_power_info(CpuId_new(leaves), leaves)))

FacadeGetExtendedFeatureInfo ==
    Returned("get_extended_feature_info", EAX_STRUCTURED_EXTENDED_FEATURE_INFO,
             get_extended_feature_info(CpuId_new(leaves), leaves))

FacadeGetDirectCacheAccessInfo ==
    Returned("get_direct_cache_access_info", EAX_DIRECT_CACHE_ACCESS_INFO,
             Returns(get_direct_cache_access_info(CpuId_new(leaves), leaves)))

FacadeGetPerformanceMonitoringInfo ==
    Returned("get_performance_monitoring_info", EAX_PERFORMANCE_MONITOR_INFO,
             Returns(get_performance_monitoring_info(CpuId_new(leaves), leaves)))

FacadeGetExtendedTopologyInfo ==
    Returned("get_extended_topology_info", EAX_EXTENDED_TOPOLOGY_INFO,
             Returns(get_extended_topology_info(CpuId_new(leaves))))

FacadeGetExtendedStateInfo ==
    Returned("get_extended_state_info", EAX_EXTENDED_STATE_INFO,
             Returns(get_extended_state_info(CpuId_new(leaves), leaves)))

FacadeGetQualityOfServiceInfo ==
    Returned("get_quality_of_service_info", EAX_QOS_INFO,
             Returns(get_quality_of_service_info(CpuId_new(leaves), leaves)))

\* the caller asks the view of leaf Dh one thing and records the answer
Asked(fn, ret) ==
    /\ ~panicked /\ iter.kind = "ExtendedStateInfo" /\ out = <<>>
    /\ out' = <<[fn |-> fn, ret |-> ret]>>
    /\ UNCHANGED <<leaves, panicked, call, pre, keys, iter, build>>

HasXsaveopt == Asked("has_xsaveopt", has_xsaveopt(iter))
HasXsavec == Asked("has_xsavec", has_xsavec(iter))
HasXgetbv == Asked("has_xgetbv", has_xgetbv(iter))
HasXsavesXrstors == Asked("has_xsaves_xrstors", has_xsaves_xrstors(iter))

NextFacade ==
    \/ FacadeGetVendorInfo
    \/ FacadeGetFeatureInfo
    \/ FacadeGetCacheInfo
    \/ FacadeGetProcessorSerial
    \/ FacadeGetCacheParameters
    \/ FacadeGetMonitorMwaitInfo
    \/ FacadeGetThermalPowerInfo
    \/ FacadeGetExtendedFeatureInfo
    \/ FacadeGetDirectCacheAccessInfo
    \/ FacadeGetPerformanceMonitoringInfo
    \/ FacadeGetExtendedTopologyInfo
    \/ FacadeGetExtendedStateInfo
    \/ FacadeGetQualityOfServiceInfo
    \/ HasXsaveopt
    \/ HasXsavec
    \/ HasXgetbv
    \/ HasXsavesXrstors

SpecFacade == InitFacade /\ [][NextFacade]_vars

----------------------------------------------------------------------------
(* The getters and the leaf-support signal                                 *)

\* the view or iterator each getter returns
ViewOf ==
    [get_vendor_info |-> "VendorInfo",
     get_feature_info |-> "FeatureInfo",
     get_cache_info |-> "CacheInfoIter",
     get_processor_serial |-> "ProcessorSerial",
     get_cache_parameters |-> "CacheParametersIter",
     get_monitor_mwait_info |-> "MonitorMwaitInfo",
     get_thermal_power_info |-> "ThermalPowerInfo",
     get_extended_feature_info |-> "ExtendedFeatures",
     get_direct_cache_access_info |-> "DirectCacheAccessInfo",
     get_performance_monitoring_info |-> "PerformanceMonitoringInfo",
     get_extended_topology_info |-> "ExtendedTopologyIter",
     get_extended_state_info |-> "ExtendedStateInfo",
     get_quality_of_service_info |-> "QoSInfo"]

\* a getter has been called
GetterCalled == call.op \in DOMAIN ViewOf

\* M: the eax of leaf 0h as the source answers it
MaxStandard == query1(leaves, EAX_VENDOR_INFO).eax

ReturnedNone == ~panicked /\ iter.kind = "unsupported"
ReturnedView == ~panicked /\ iter.kind = ViewOf[call.op]

\* C21: every standard-leaf getter of CpuId returns None exactly when its leaf
\* is above the eax of leaf 0h of the source, and a view or iterator exactly
\* when its leaf is not above it.
C21_LeafSupportGating ==
    GetterCalled =>
        /\ ReturnedNone <=> Lt(MaxStandard, call.leaf)
        /\ ReturnedView <=> ~Lt(MaxStandard, call.leaf)

\* every getter but that of leaf 7h is gated so
C21_GatingButLeaf7 ==
    (GetterCalled /\ call.op # "get_extended_feature_info") =>
        /\ ReturnedNone <=> Lt(MaxStandard, call.leaf)
        /\ ReturnedView <=> ~Lt(MaxStandard, call.leaf)

\* the getter of leaf 7h returned neither None nor a view for a supported leaf
C21_SupportedButNoView ==
    /\ call.op = "get_extended_feature_info"
    /\ ~Lt(MaxStandard, call.leaf)
    /\ ~ReturnedView /\ ~ReturnedNone

\* C22: whenever leaf 7h is supported, get_extended_feature_info returns a
\* view whatever the registers of leaf 7h hold, a non-zero eax included, and
\* never faults.
C22_NoValidationOfLeaf7 ==
    (call.op = "get_extended_feature_info" /\ ~Lt(MaxStandard, call.leaf)) =>
        /\ ~panicked
        /\ iter.kind = "ExtendedFeatures"
        /\ iter.eax = query1(leaves, EAX_STRUCTURED_EXTENDED_FEATURE_INFO).eax

\* it faulted on leaf 7h with eax = 1
C22_FaultsOnNonZeroEax ==
    /\ call.op = "get_extended_feature_info"
    /\ query1(leaves, EAX_STRUCTURED_EXTENDED_FEATURE_INFO).eax = U32(0, 1)
    /\ panicked

\* the bit of eax1 each capability accessor stands for
CapabilityBit ==
    [has_xsaveopt |-> 0, has_xsavec |-> 1, has_xgetbv |-> 2, has_xsaves_xrstors |-> 3]

\* C23: has_xsaveopt, has_xsavec, has_xgetbv and has_xsaves_xrstors are true
\* iff bit 0, 1, 2, 3 of eax of leaf Dh subleaf 1 is set, for every eax.
C23_CapabilityBits ==
    (iter.kind = "ExtendedStateInfo" /\ out # <<>>) =>
        out[1].ret = Bit(iter.eax1, CapabilityBit[out[1].fn])

\* has_xsaveopt alone is as claimed
C23_XsaveoptIsBit0 ==
    (iter.kind = "ExtendedStateInfo" /\ out # <<>> /\ out[1].fn = "has_xsaveopt") =>
        out[1].ret = Bit(iter.eax1, 0)

\* eax1 = Fh and has_xsavec answered false
C23_XsavecFalseOnF ==
    /\ iter.kind = "ExtendedStateInfo" /\ out # <<>>
    /\ iter.eax1 = U32(0, 15)
    /\ out[1].fn = "has_xsavec" /\ ~out[1].ret


----------------------------------------------------------------------------
(* The level types the topology decoder is defined for                     *)

\* the level type ecx[15:8] of the subleaf that call j of next() fetched:
\* the decoder starts at subleaf 0 and goes one up with every call
FetchedType(j) ==
    get_bits(query2(leaves, EAX_EXTENDED_TOPOLOGY_INFO, U32(0, j - 1)).ecx, 8, 15)

\* C29: when the subleaf of leaf Bh that next() fetched has level type 0 the
\* call ends the sequence, when it has level type 1 or 2 the call yields the
\* item, and for every other level type the call faults instead of yielding
\* or ending; next() faults in no other case.
C29_LevelTypesDefined ==
    iter.kind = "ExtendedTopologyIter" =>
        /\ \A j \in 1..Len(out) :
              LET faulted == panicked /\ j = Len(out)
              IN  /\ FetchedType(j) = 0 => (out[j] = None /\ ~faulted)
                  /\ FetchedType(j) \in {1, 2} =>
                        /\ out[j] = Some(query2(leaves, EAX_EXTENDED_TOPOLOGY_INFO,
                                                U32(0, j - 1)))
                        /\ ~faulted
                  /\ FetchedType(j) \notin {0, 1, 2} => faulted
        /\ panicked => out # <<>>

\* an item was yielded, then a subleaf of level type 255 was fetched and
\* next() has faulted
C29_Witness ==
    /\ iter.kind = "ExtendedTopologyIter"
    /\ Len(out) = 2
    /\ FetchedType(1) = 1 /\ IsSome(out[1])
    /\ FetchedType(2) = 255
    /\ panicked

\* level type 3 on the first call: faulted as well
C29_WitnessType3 ==
    /\ iter.kind = "ExtendedTopologyIter"
    /\ Len(out) = 1
    /\ FetchedType(1) = 3
    /\ panicked


----------------------------------------------------------------------------
(* Micro-architecture identification                                       *)

\* `(family as u16) << 8 + model`: + binds tighter than <<, so the u16 is
\* shifted by the u8 sum 8 + model. With overflow checks (debug) the sum
\* panics above 255 and the shift panics for an amount of 16 or more; without
\* them (release) the sum wraps and the amount is taken modulo 16.
family_model(family, model, b) ==
    LET sum == 8 + model
        amount == sum % 256
    IN  IF b = "debug" /\ (sum > 255 \/ amount >= 16)
        THEN [value |-> 0, panic |-> TRUE]
        ELSE [value |-> (family * 2^(amount % 16)) % 65536, panic |-> FALSE]

\* the arms of `match family_model` for Intel; stepping only splits arm
\* 0x05_09, both ways to None
intel_family_model(fm, stepping) ==
    IF fm \in {1025, 1026, 1027, 1028, 1029, 1031, 1032, 1033} THEN Some("INTEL_486")
    ELSE IF fm \in {1281, 1282} THEN Some("INTEL_P5")
    ELSE IF fm \in {1284, 1287} THEN Some("INTEL_P5MMX")
    ELSE IF fm = 1289 THEN (IF stepping = 0 THEN None ELSE None)
    ELSE IF fm = 1537 THEN Some("INTEL_P6_PENTIUM_PRO")
    ELSE IF fm \in {1539, 1541, 1542} THEN Some("INTEL_P6_PENTIUM_II")
    ELSE IF fm \in {1543, 1544, 1546, 1547} THEN Some("INTEL_P6_PENTIUM_III")
    ELSE IF fm \in {3840, 3841} THEN Some("INTEL_WILLAMETTE")
    ELSE IF fm = 3842 THEN Some("INTEL_NORTHWOOD")
    ELSE IF fm \in {3843, 3844} THEN Some("INTEL_PRESCOTT")
    ELSE IF fm = 3846 THEN Some("INTEL_CEDARMILL")
    ELSE None

identify_micro_architecture(vendor, family, model, stepping, b) ==
    LET fm == family_model(family, model, b)
    IN  IF fm.panic THEN [ret |-> None, panic |-> TRUE]
        ELSE IF vendor = "Intel"
             THEN [ret |-> intel_family_model(fm.value, stepping), panic |-> FALSE]
        ELSE IF vendor = "Amd" THEN [ret |-> None, panic |-> FALSE]
        ELSE [ret |-> None, panic |-> FALSE]

\* the arguments of a call
Vendors == {"Intel", "Amd", "Unknown"}
Families == {0, 4, 5, 6, 15, 129, 193, 255}
Models == 0..15 \cup {247, 248, 255}
Steppings == {0, 1, 255}

InitUarch ==
    /\ leaves = EmptyMap
    /\ panicked = FALSE
    /\ call = [op |-> "new", leaf |-> LEAF_0000_0000, subleaf |-> None, bits |-> None]
    /\ pre = EmptyMap
    /\ keys = {}
    /\ iter = NoIter
    /\ out = <<>>
    /\ build \in Builds

IdentifyMicroArchitecture(vendor, family, model, stepping) ==
    /\ ~panicked /\ iter = NoIter
    /\ LET r == identify_micro_architecture(vendor, family, model, stepping, build)
       IN  /\ iter' = [kind |-> "identify_micro_architecture", vendor |-> vendor,
                       family |-> family, model |-> model, stepping |-> stepping]
           /\ out' = IF r.panic THEN out ELSE <<r.ret>>
           /\ panicked' = r.panic
    /\ UNCHANGED <<leaves, call, pre, keys, build>>

NextUarch ==
    \E vendor \in Vendors, family \in Families, model \in Models, stepping \in Steppings :
        IdentifyMicroArchitecture(vendor, family, model, stepping)

SpecUarch == InitUarch /\ [][NextUarch]_vars

\* the micro-architecture the claim names for a family and model of Intel
Claimed(family, model) ==
    IF family = 15 /\ model = 1 THEN Some("INTEL_WILLAMETTE")
    ELSE IF family = 15 /\ model = 2 THEN Some("INTEL_NORTHWOOD")
    ELSE IF family = 6 /\ model = 1 THEN Some("INTEL_P6_PENTIUM_PRO")
    ELSE IF family = 6 /\ model \in {7, 8, 10, 11} THEN Some("INTEL_P6_PENTIUM_III")
    ELSE IF family = 4 /\ model = 1 THEN Some("INTEL_486")
    ELSE None

\* the pairs the claim names
ClaimedPairs ==
    {<<15, 1>>, <<15, 2>>, <<6, 1>>, <<6, 7>>, <<6, 8>>, <<6, 10>>, <<6, 11>>, <<4, 1>>}

Identified == iter.kind = "identify_micro_architecture"

\* C30: identify_micro_architecture looks family * 256 + model up: for Intel
\* and any stepping it returns Willamette for 0Fh/1, Northwood for 0Fh/2,
\* Pentium Pro for 6/1, Pentium III for 6/7, 6/8, 6/Ah, 6/Bh and i486 for 4/1,
\* None for every vendor but Intel, and it faults for no family, model and
\* stepping.
C30_KeyedByFamilyAndModel ==
    Identified =>
        /\ ~panicked
        /\ (iter.vendor = "Intel" /\ <<iter.family, iter.model>> \in ClaimedPairs) =>
              out = <<Claimed(iter.family, iter.model)>>
        /\ iter.vendor # "Intel" => out = <<None>>

\* Intel, family 0Fh, model 1: None was returned
C30_WillametteNotFound ==
    /\ Identified /\ ~panicked
    /\ iter.vendor = "Intel" /\ iter.family = 15 /\ iter.model = 1
    /\ out = <<None>>

\* Intel, family 6, model 8, overflow checks on: the shift by 16 faulted
C30_FaultsOnModel8 ==
    /\ Identified /\ panicked
    /\ iter.vendor = "Intel" /\ iter.family = 6 /\ iter.model = 8
    /\ build = "debug"

\* without overflow checks the call does not fault, and family 193 model 11
\* is taken for a Pentium III
C30_ReleaseMisidentifies ==
    /\ Identified /\ ~panicked /\ build = "release"
    /\ iter.vendor = "Intel" /\ iter.family = 193 /\ iter.model = 11
    /\ out = <<Some("INTEL_P6_PENTIUM_III")>>

\* the one pair for which a table entry is found with overflow checks on:
\* model 0 leaves the shift at 8
C30_OnlyModel0Found ==
    (Identified /\ ~panicked /\ build = "debug" /\ out # <<None>>) =>
        /\ iter.vendor = "Intel" /\ iter.family = 15 /\ iter.model = 0
        /\ out = <<Some("INTEL_WILLAMETTE")>>

====
